---- MODULE Spec2Model ----
(***************************************************************************)
(* Model of the Wildmeta intelligence suite: the RSS macro/crypto poller   *)
(* (rss_macro_crypto_bot.py), the X timeline poller                        *)
(* (wildmeta_x_feed_bot.py) and the bot manager that supervises both       *)
(* (wildmeta_bot_manager.py).                                              *)
(*                                                                         *)
(* asyncio is cooperative: a task runs until its next await.  Every        *)
(* action below is one stretch of code of one task, ending at an await or  *)
(* at a stage boundary (a finer grain than the scheduler's, so every real  *)
(* interleaving is a behaviour of the model).                              *)
(***************************************************************************)
EXTENDS Integers, Sequences, FiniteSets, TLC

(***************************************************************************)
(* Optional[T]: None is the empty set, a present value v is {v}.           *)
(***************************************************************************)
None == {}
Some(v) == {v}
Val(o) == CHOOSE v \in o : TRUE

(***************************************************************************)
(* Bounds of the model.                                                    *)
(***************************************************************************)
\* rate-limit answers the endpoint gives to one tg_send call (feed variant)
MaxRateLimits == 2
\* unhandled errors escaping a poller task during one run
MaxCrashes == 1
\* days the clock advances in the store specification
MaxDays == 1
\* keyword hits of one family in the texts the filter is applied to
MaxHits == 2
\* the smallest classifier confidences, in millionths: 0..MaxTinyConf
MaxTinyConf == 1
\* characters of the short item fields handed to the formatters
MaxFieldLen == 1
\* log records emitted in one run of the handler specification
MaxTags == 2
MaxRecords == 11
\* X_MAX_POSTS_PER_CYCLE (environment setting, 5 when unset): posts taken
\* from one page of the timeline
MAX_POSTS_PER_CYCLE == 2

(***************************************************************************)
(* Program constants and configuration.                                    *)
(***************************************************************************)
DAY == 86400
\* sentiment_ensemble: texts shorter than this are scored by the lexicon alone
SHORT_TEXT == 16
\* sentiment_ensemble: the classifiers read text[:1200]
HF_TEXT_LIMIT == 1200
\* format_message: the character budget of the summary line
SUMMARY_BUDGET == 400
\* BotLogHandler.emit: entries kept per error list
ERRORS_KEPT == 10
\* logging.INFO, logging.WARNING, logging.ERROR
LOGGING_INFO == 20
LOGGING_WARNING == 30
LOGGING_ERROR == 40
RSS_DEFAULT_RETRY_AFTER == 3
X_DEFAULT_RETRY_AFTER == 5
max_retries == 3
Now0 == 10 * DAY

VARIABLES
  now,                          \* time.time()
  MAX_AGE_DAYS,                 \* configuration, fixed at start-up
  POST_ONLY_ON_STRONG_MATCH,    \* configuration, fixed at start-up
  seen,                         \* rows of table seen      (bot.db)
  x_posts,                      \* rows of table x_posts   (x_bot.db)
  db_error,                     \* a store statement raised
  rss,                          \* locals of the feed task (run_loop/process_feed)
  tg,                           \* the feed task's tg_send call
  x,                            \* locals of the X task (run_loop/process_x_feed)
  xtg,                          \* the X task's tg_send_message call
  mgr,                          \* BotManager fields
  hist,                         \* observations: deliveries, restarts, store calls
  hf,                           \* the scorer: module globals _finbert, _rob and its last call
  fmt,                          \* a formatter call: the item it is given and the message it returns
  bot_log_handler               \* BotLogHandler fields, and every record emitted so far

vars == <<now, MAX_AGE_DAYS, POST_ONLY_ON_STRONG_MATCH, seen, x_posts, db_error,
          rss, tg, x, xtg, mgr, hist, hf, fmt, bot_log_handler>>

(***************************************************************************)
(* Storage.  A table is its set of rows; INSERT with a conflict clause.    *)
(***************************************************************************)
\* INSERT [OR IGNORE | OR REPLACE] of row into table, conflicts = the rows
\* of the table holding row's primary key.
SqlInsertAbort(table, row, conflicts, clause) ==
  IF conflicts # {} THEN [table |-> table, error |-> TRUE]
  ELSE [table |-> table \cup {row}, error |-> FALSE]

SqlInsert(table, row, conflicts, clause) ==
  IF conflicts = {} THEN [table |-> table \cup {row}, error |-> FALSE]
  ELSE IF clause = "IGNORE" THEN [table |-> table, error |-> FALSE]
  ELSE IF clause = "REPLACE" THEN [table |-> (table \ conflicts) \cup {row}, error |-> FALSE]
  ELSE [table |-> table, error |-> TRUE]

\* rss_macro_crypto_bot.init_db: CREATE TABLE IF NOT EXISTS keeps the rows
rss_init_db_drop(table) == {}
rss_init_db(table) == table

rss_seen_before_never(table, feed, key) == FALSE
rss_seen_before(table, feed, key) ==
  \E r \in table : r.feed = feed /\ r.entry_key = key

rss_mark_seen_replaces(table, feed, key, published_ts) ==
  SqlInsert(table,
            [feed |-> feed, entry_key |-> key, published_ts |-> published_ts,
             first_seen_ts |-> now],
            {r \in table : r.feed = feed /\ r.entry_key = key},
            "REPLACE")

rss_mark_seen(table, feed, key, published_ts) ==
  SqlInsert(table,
            [feed |-> feed, entry_key |-> key, published_ts |-> published_ts,
             first_seen_ts |-> now],
            {r \in table : r.feed = feed /\ r.entry_key = key},
            "IGNORE")

\* wildmeta_x_feed_bot.init_db / seen_before / mark_seen
x_init_db(table) == table

x_seen_before_never(table, post_id) == FALSE
x_seen_before(table, post_id) == \E r \in table : r.post_id = post_id

x_mark_seen(table, post_id, posted_at, telegram_msg_id) ==
  SqlInsert(table,
            [post_id |-> post_id, posted_at |-> posted_at, first_seen_ts |-> now,
             telegram_msg_id |-> telegram_msg_id],
            {r \in table : r.post_id = post_id},
            "REPLACE")

(***************************************************************************)
(* Utilities of the feed poller.                                           *)
(***************************************************************************)
\* Python truthiness of an Optional[int]: None and 0 are both falsy
Falsy(o) == o = None \/ o = Some(0)

too_old_undated(pub_ts) ==
  IF pub_ts = None THEN TRUE
  ELSE IF Falsy(pub_ts) THEN FALSE
  ELSE (now - Val(pub_ts)) > MAX_AGE_DAYS * DAY

too_old(pub_ts) ==
  IF Falsy(pub_ts) THEN FALSE
  ELSE (now - Val(pub_ts)) > MAX_AGE_DAYS * DAY

\* matches_filters on the hit counts of the three keyword families
matches_filters_no_priority(macro_hits, crypto_hits, hyper) ==
  LET macro == macro_hits > 0
      crypto == crypto_hits > 0
  IN IF POST_ONLY_ON_STRONG_MATCH
       THEN [include |-> (macro /\ crypto) \/ macro_hits >= 2 \/ crypto_hits >= 2,
             macro |-> macro, crypto |-> crypto]
     ELSE [include |-> macro \/ crypto, macro |-> macro, crypto |-> crypto]

matches_filters_both_only(macro_hits, crypto_hits, hyper) ==
  LET macro == macro_hits > 0
      crypto == crypto_hits > 0
  IN IF hyper THEN [include |-> TRUE, macro |-> TRUE, crypto |-> TRUE]
     ELSE IF POST_ONLY_ON_STRONG_MATCH
       THEN [include |-> macro /\ crypto, macro |-> macro, crypto |-> crypto]
       ELSE [include |-> macro \/ crypto, macro |-> macro, crypto |-> crypto]

matches_filters_macro_only(macro_hits, crypto_hits, hyper) ==
  LET macro == macro_hits > 0
      crypto == crypto_hits > 0
  IN IF hyper THEN [include |-> TRUE, macro |-> TRUE, crypto |-> TRUE]
     ELSE IF POST_ONLY_ON_STRONG_MATCH
       THEN [include |-> (macro /\ crypto) \/ macro_hits >= 2 \/ crypto_hits >= 2,
             macro |-> macro, crypto |-> crypto]
       ELSE [include |-> macro, macro |-> macro, crypto |-> crypto]

matches_filters(macro_hits, crypto_hits, hyper) ==
  LET macro == macro_hits > 0
      crypto == crypto_hits > 0
  IN IF hyper THEN [include |-> TRUE, macro |-> TRUE, crypto |-> TRUE]
     ELSE IF POST_ONLY_ON_STRONG_MATCH
       THEN [include |-> (macro /\ crypto) \/ macro_hits >= 2 \/ crypto_hits >= 2,
             macro |-> macro, crypto |-> crypto]
       ELSE [include |-> macro \/ crypto, macro |-> macro, crypto |-> crypto]

(***************************************************************************)
(* The outside world: what the feeds serve and how the Telegram endpoint   *)
(* answers.  An entry carries what the poller reads from it: its id, its   *)
(* published time, the keyword hits of title+summary, the hits the full    *)
(* body adds, the score the sentiment scorer returns for its text (in      *)
(* hundredths), and the stage at which a malformed entry raises.           *)
(***************************************************************************)
FEEDS == <<"feed1", "feed2">>

Entry(id, published, macro_hits, crypto_hits, hyper, raises) ==
  [id |-> id, published |-> published, macro_hits |-> macro_hits,
   crypto_hits |-> crypto_hits, hyper |-> hyper, body_macro_hits |-> 1,
   score |-> 50, raises |-> raises]

EntryFresh  == Entry("a", Some(Now0 - DAY), 1, 0, FALSE, "none")
EntryOld    == Entry("b", Some(Now0 - 3 * DAY), 1, 0, FALSE, "none")
EntryEpoch  == Entry("c", Some(0), 0, 1, FALSE, "none")
EntryNoDate == Entry("d", None, 0, 0, FALSE, "none")
EntryBad    == Entry("e", Some(Now0), 1, 1, FALSE, "format_message")
EntryNoKey  == Entry("f", Some(Now0), 1, 1, FALSE, "entry_key")

\* the batches a successful fetch of a feed can return
Upstream(feed) ==
  IF feed = "feed1" THEN {<<EntryFresh, EntryOld, EntryBad>>}
  ELSE {<<EntryNoKey, EntryEpoch, EntryNoDate>>}

RetryAfters == {None, Some(2)}

RespOk == [kind |-> "ok", retry_after |-> None]
RespNotOk == [kind |-> "not_ok", retry_after |-> None]
RespHttpError == [kind |-> "http_error", retry_after |-> None]
RespTimeout == [kind |-> "timeout", retry_after |-> None]
Resp429(ra) == [kind |-> "rate_limited", retry_after |-> ra]

Responses ==
  {RespOk, RespNotOk, RespHttpError, RespTimeout} \cup {Resp429(ra) : ra \in RetryAfters}

\* malformed rate-limit answers: a 429 whose body is not JSON, and a 429
\* whose retry_after is present but is not a number (a string, or null)
Resp429NoJson == [kind |-> "rate_limited_no_json", retry_after |-> None]
Resp429NotNumber == [kind |-> "rate_limited_not_number", retry_after |-> None]

AllResponses == Responses \cup {Resp429NoJson, Resp429NotNumber}

\* status_code == 429
IsRateLimit(resp) ==
  resp.kind \in {"rate_limited", "rate_limited_no_json", "rate_limited_not_number"}

(***************************************************************************)
(* Observations (history, not program state).                              *)
(***************************************************************************)
Key(source, id) == <<source, id>>

\* the keys that have a dedup record
StoreKeys ==
  {Key(r.feed, r.entry_key) : r \in seen} \cup {Key("x", r.post_id) : r \in x_posts}

\* a send request for key k is issued: observed when k has a record already
ObserveSend(h, k) ==
  IF k \in StoreKeys THEN [h EXCEPT !.sent_while_seen = @ \cup {k}] ELSE h

(***************************************************************************)
(* Feed poller: rss_macro_crypto_bot.run_loop and process_feed.            *)
(***************************************************************************)
RssFresh ==
  [pc |-> "start", pass |-> "initial", feed |-> 1, entries |-> <<>>, i |-> 0,
   body |-> FALSE, cls |-> None]

RssDead == [RssFresh EXCEPT !.pc = "dead"]

\* one tg_send call: requests issued, rate-limit answers received, sleeps
\* taken, and the sleep in progress as <<the answer's retry_after, the
\* seconds slept, the kind of the answer>> (<<>> when the call is not
\* sleeping on a rate-limit answer)
TgIdle == [sends |-> 0, signals |-> 0, sleeps |-> 0, last |-> <<>>, result |-> "none"]

RssFeed == FEEDS[rss.feed]
RssEntry == rss.entries[rss.i]
RssKey == RssEntry.id

\* the for-loops of run_loop: the next feed, the next pass, the sleep
RssNextFeed(r) ==
  IF r.feed < Len(FEEDS)
    THEN [r EXCEPT !.pc = "Fetching", !.feed = @ + 1, !.entries = <<>>, !.i = 0,
                   !.body = FALSE, !.cls = None]
  ELSE IF r.pass = "initial"
    THEN [r EXCEPT !.pc = "Fetching", !.pass = "loop", !.feed = 1, !.entries = <<>>,
                   !.i = 0, !.body = FALSE, !.cls = None]
  ELSE [r EXCEPT !.pc = "Idle", !.entries = <<>>, !.i = 0, !.body = FALSE, !.cls = None]

\* `continue`, or the end of the loop body: the next entry of the batch
RssNextEntry(r) ==
  IF r.i < Len(r.entries)
    THEN [r EXCEPT !.pc = "Deduping", !.i = @ + 1, !.body = FALSE, !.cls = None]
  ELSE RssNextFeed(r)

\* except Exception at the end of the loop body: log, sleep 0.5, next entry
RssEntryErrorAbortsBatch(r) == RssNextFeed(r)

RssEntryErrorRestartsBatch(r) ==
  [r EXCEPT !.pc = "Deduping", !.i = 1, !.body = FALSE, !.cls = None]

RssEntryError(r) == RssNextEntry(r)

\* a task is live until it is done (failed, finished or cancelled)
Live(task) == task \in {"running", "cancelling"}

\* the awaits of run_loop, process_feed and tg_send: the places where the
\* task is suspended and where a requested cancellation is raised in it
RssSuspended ==
  \/ rss.pc \in {"start", "Fetching", "Deduping", "Enriching", "Posting", "Idle"}
  \/ rss.pc = "Delivering" /\ tg.last # <<>>

\* the event loop runs the task: it is not done and not being cancelled,
\* the loop has not been closed, and start() is not about to resume on the
\* shutdown event (it runs before the pollers take another step)
LoopRuns(task) ==
  /\ mgr.phase # "returned"
  /\ ~(mgr.shutdown_event /\ mgr.phase = "waiting")
  /\ task = "running"

RssRunning == LoopRuns(mgr.rss_task)

\* run_loop up to the first fetch: init_db, client, warm-up
RssStart ==
  /\ RssRunning /\ rss.pc = "start"
  /\ seen' = rss_init_db(seen)
  /\ rss' = [rss EXCEPT !.pc = "Fetching"]
  /\ UNCHANGED <<bot_log_handler, fmt, hf, now, MAX_AGE_DAYS, POST_ONLY_ON_STRONG_MATCH, x_posts, db_error,
                 tg, x, xtg, mgr, hist>>

\* process_feed: the fetch; a failure returns 0 and the cycle goes on
RssFetchAbortsCycle ==
  /\ RssRunning /\ rss.pc = "Fetching"
  /\ \/ rss' = [rss EXCEPT !.pc = "Idle", !.pass = "loop"]
     \/ \E batch \in Upstream(RssFeed) :
          rss' = RssNextEntry([rss EXCEPT !.entries = batch, !.i = 0])
  /\ UNCHANGED <<bot_log_handler, fmt, hf, now, MAX_AGE_DAYS, POST_ONLY_ON_STRONG_MATCH, seen, x_posts, db_error,
                 tg, x, xtg, mgr, hist>>

\* process_feed: the fetch, from feeds that serve the batches served[feed]
RssFetchFrom(served) ==
  /\ RssRunning /\ rss.pc = "Fetching"
  /\ \/ rss' = RssNextFeed(rss)
     \/ \E batch \in served[RssFeed] :
          rss' = RssNextEntry([rss EXCEPT !.entries = batch, !.i = 0])
  /\ UNCHANGED <<bot_log_handler, fmt, hf, now, MAX_AGE_DAYS, POST_ONLY_ON_STRONG_MATCH, seen, x_posts, db_error,
                 tg, x, xtg, mgr, hist>>

FeedNames == {FEEDS[k] : k \in 1..Len(FEEDS)}

RssFetch == RssFetchFrom([feed \in FeedNames |-> Upstream(feed)])

\* entry_key, seen_before, to_unix_ts, too_old
RssDedup ==
  /\ RssRunning /\ rss.pc = "Deduping"
  /\ IF RssEntry.raises = "entry_key"
       THEN rss' = RssEntryError(rss) /\ UNCHANGED <<bot_log_handler, fmt, hf, seen, db_error>>
     ELSE IF rss_seen_before(seen, RssFeed, RssKey)
       THEN rss' = RssNextEntry(rss) /\ UNCHANGED <<bot_log_handler, fmt, hf, seen, db_error>>
     ELSE IF too_old(RssEntry.published)
       THEN LET w == rss_mark_seen(seen, RssFeed, RssKey, RssEntry.published)
            IN /\ seen' = w.table
               /\ db_error' = (db_error \/ w.error)
               /\ rss' = IF w.error THEN RssEntryError(rss) ELSE RssNextEntry(rss)
     ELSE rss' = [rss EXCEPT !.pc = "Enriching"] /\ UNCHANGED <<bot_log_handler, fmt, hf, seen, db_error>>
  /\ UNCHANGED <<bot_log_handler, fmt, hf, now, MAX_AGE_DAYS, POST_ONLY_ON_STRONG_MATCH, x_posts, tg, x, xtg,
                 mgr, hist>>

\* what the item's page does when it is fetched, and what each of the three
\* extraction tiers (trafilatura, readability, plain soup) makes of it: a
\* text of more than 200 characters, a shorter one, or an exception
Pages ==
  [fetch : {"ok", "http_error", "timeout"},
   tiers : [1..3 -> {"text", "short", "raises"}]]

\* fetch_text: the page, or None on any error
fetch_text(page) == IF page.fetch = "ok" THEN Some("html") ELSE None

\* extract_fulltext: the text of the first tier that yields one, or None
extract_fulltext(html_text, page) ==
  IF html_text = None THEN None
  ELSE IF \E t \in 1..3 : page.tiers[t] = "text" THEN Some("text")
  ELSE None

\* fetch_text and extract_fulltext: best effort, body = "" on any failure
RssEnrichAborts ==
  /\ RssRunning /\ rss.pc = "Enriching"
  /\ \E page \in Pages :
       LET body == extract_fulltext(fetch_text(page), page)
       IN rss' = IF body = None THEN RssEntryError(rss)
                 ELSE [rss EXCEPT !.pc = "Classifying", !.body = TRUE]
  /\ UNCHANGED <<bot_log_handler, fmt, hf, now, MAX_AGE_DAYS, POST_ONLY_ON_STRONG_MATCH, seen, x_posts, db_error,
                 tg, x, xtg, mgr, hist>>

RssEnrich ==
  /\ RssRunning /\ rss.pc = "Enriching"
  /\ \E page \in Pages :
       LET body == extract_fulltext(fetch_text(page), page)
       IN rss' = [rss EXCEPT !.pc = "Classifying", !.body = (body # None)]
  /\ UNCHANGED <<bot_log_handler, fmt, hf, now, MAX_AGE_DAYS, POST_ONLY_ON_STRONG_MATCH, seen, x_posts, db_error,
                 tg, x, xtg, mgr, hist>>

\* matches_filters, the strong-sentiment override, and the skip decision
RssClassifyResultAnyText(e, body) ==
  LET m == matches_filters(e.macro_hits + (IF body THEN e.body_macro_hits ELSE 0),
                           e.crypto_hits, e.hyper)
      override == /\ ~m.include /\ POST_ONLY_ON_STRONG_MATCH
                  /\ (e.score >= 80 \/ e.score <= 20)
  IN [m EXCEPT !.include = m.include \/ override]

RssClassifyResult(e, body) ==
  LET m == matches_filters(e.macro_hits + (IF body THEN e.body_macro_hits ELSE 0),
                           e.crypto_hits, e.hyper)
      override == /\ ~m.include /\ POST_ONLY_ON_STRONG_MATCH
                  /\ (m.macro \/ m.crypto)
                  /\ (e.score >= 80 \/ e.score <= 20)
  IN [m EXCEPT !.include = m.include \/ override]

RssClassifyRejectNotMarked ==
  /\ RssRunning /\ rss.pc = "Classifying"
  /\ LET c == RssClassifyResult(RssEntry, rss.body)
     IN IF ~c.include THEN rss' = RssNextEntry(rss)
        ELSE rss' = [rss EXCEPT !.pc = "Formatting", !.cls = Some(c)]
  /\ UNCHANGED <<bot_log_handler, fmt, hf, now, MAX_AGE_DAYS, POST_ONLY_ON_STRONG_MATCH, seen, x_posts, db_error,
                 tg, x, xtg, mgr, hist>>

RssClassify ==
  /\ RssRunning /\ rss.pc = "Classifying"
  /\ LET c == RssClassifyResult(RssEntry, rss.body)
     IN IF ~c.include
          THEN LET w == rss_mark_seen(seen, RssFeed, RssKey, RssEntry.published)
               IN /\ seen' = w.table
                  /\ db_error' = (db_error \/ w.error)
                  /\ rss' = IF w.error THEN RssEntryError(rss) ELSE RssNextEntry(rss)
        ELSE /\ rss' = [rss EXCEPT !.pc = "Formatting", !.cls = Some(c)]
             /\ UNCHANGED <<bot_log_handler, fmt, hf, seen, db_error>>
  /\ UNCHANGED <<bot_log_handler, fmt, hf, now, MAX_AGE_DAYS, POST_ONLY_ON_STRONG_MATCH, x_posts, tg, x, xtg,
                 mgr, hist>>

\* sentiment_ensemble, tags, format_message; then tg_send is entered
RssFormatMarksFirst ==
  /\ RssRunning /\ rss.pc = "Formatting"
  /\ IF RssEntry.raises = "format_message"
       THEN rss' = RssEntryError(rss) /\ tg' = tg /\ seen' = seen
     ELSE /\ rss' = [rss EXCEPT !.pc = "Delivering"] /\ tg' = TgIdle
          /\ seen' = rss_mark_seen(seen, RssFeed, RssKey, RssEntry.published).table
  /\ UNCHANGED <<bot_log_handler, fmt, hf, now, MAX_AGE_DAYS, POST_ONLY_ON_STRONG_MATCH, x_posts, db_error,
                 x, xtg, mgr, hist>>

RssFormat ==
  /\ RssRunning /\ rss.pc = "Formatting"
  /\ IF RssEntry.raises = "format_message"
       THEN rss' = RssEntryError(rss) /\ tg' = tg
     ELSE rss' = [rss EXCEPT !.pc = "Delivering"] /\ tg' = TgIdle
  /\ UNCHANGED <<bot_log_handler, fmt, hf, now, MAX_AGE_DAYS, POST_ONLY_ON_STRONG_MATCH, seen, x_posts, db_error,
                 x, xtg, mgr, hist>>

\* tg_send: client.post is issued
RssPost ==
  /\ RssRunning /\ rss.pc = "Delivering"
  /\ rss' = [rss EXCEPT !.pc = "Posting"]
  /\ tg' = [tg EXCEPT !.sends = @ + 1, !.last = <<>>]
  /\ hist' = ObserveSend(hist, Key(RssFeed, RssKey))
  /\ UNCHANGED <<bot_log_handler, fmt, hf, now, MAX_AGE_DAYS, POST_ONLY_ON_STRONG_MATCH, seen, x_posts, db_error,
                 x, xtg, mgr>>

\* the sleep tg_send takes on a rate-limit answer: int(...) of the value it
\* reads, or the default when there is none or when reading it raises
rss_retry_after(resp) ==
  IF resp.retry_after = None THEN RSS_DEFAULT_RETRY_AFTER ELSE Val(resp.retry_after)

\* tg_send: the answer to the post.  429 sleeps and posts again, for ever;
\* any other status either returns or raises into process_feed's handler.
tg_send_on_response_give_up(call, resp) ==
  IF IsRateLimit(resp) /\ call.signals = 0
    THEN [call EXCEPT !.signals = @ + 1,
                      !.sleeps = @ + 1,
                      !.last = <<resp.retry_after, rss_retry_after(resp), resp.kind>>,
                      !.result = "retry"]
  ELSE IF resp.kind \in {"ok", "not_ok"} THEN [call EXCEPT !.result = "returned"]
  ELSE [call EXCEPT !.result = "raised"]

tg_send_on_response(call, resp) ==
  IF IsRateLimit(resp)
    THEN [call EXCEPT !.signals = @ + 1,
                      !.sleeps = @ + 1,
                      !.last = <<resp.retry_after, rss_retry_after(resp), resp.kind>>,
                      !.result = "retry"]
  ELSE IF resp.kind \in {"ok", "not_ok"} THEN [call EXCEPT !.result = "returned"]
  ELSE [call EXCEPT !.result = "raised"]

RssResponseOn(answers) ==
  /\ RssRunning /\ rss.pc = "Posting"
  /\ \E resp \in answers :
       /\ IsRateLimit(resp) => tg.signals < MaxRateLimits
       /\ LET call == tg_send_on_response(tg, resp)
          IN /\ tg' = IF call.result = "raised" THEN TgIdle ELSE call
             /\ rss' = IF call.result = "retry" THEN [rss EXCEPT !.pc = "Delivering"]
                       ELSE IF call.result = "returned"
                         THEN [rss EXCEPT !.pc = "Committing"]
                       ELSE RssEntryError(rss)
             /\ hist' = IF IsRateLimit(resp) /\ call.result # "retry"
                          THEN [hist EXCEPT !.gave_up_on_429 = TRUE]
                        ELSE hist
  /\ UNCHANGED <<bot_log_handler, fmt, hf, now, MAX_AGE_DAYS, POST_ONLY_ON_STRONG_MATCH, seen, x_posts, db_error,
                 x, xtg, mgr>>

RssResponse == RssResponseOn(Responses)

\* the same, the endpoint giving malformed rate-limit answers as well
RssResponseAny == RssResponseOn(AllResponses)

\* after tg_send returned: posted += 1, mark_seen, sleep 0.6, next entry
RssCommitWrite(r) == rss_mark_seen(seen, FEEDS[r.feed], r.entries[r.i].id,
                                   r.entries[r.i].published)

RssCommit ==
  /\ RssRunning /\ rss.pc = "Committing"
  /\ LET w == RssCommitWrite(rss)
     IN /\ seen' = w.table
        /\ db_error' = (db_error \/ w.error)
        /\ rss' = IF w.error THEN RssEntryError(rss) ELSE RssNextEntry(rss)
  /\ tg' = TgIdle
  /\ UNCHANGED <<bot_log_handler, fmt, hf, now, MAX_AGE_DAYS, POST_ONLY_ON_STRONG_MATCH, x_posts, x, xtg, mgr, hist>>

\* the sleep between cycles ends
RssWake ==
  /\ RssRunning /\ rss.pc = "Idle"
  /\ rss' = [rss EXCEPT !.pc = "Fetching", !.feed = 1]
  /\ UNCHANGED <<bot_log_handler, fmt, hf, now, MAX_AGE_DAYS, POST_ONLY_ON_STRONG_MATCH, seen, x_posts, db_error,
                 tg, x, xtg, mgr, hist>>

\* an error outside process_feed's try blocks escapes run_loop: init_db and
\* the client at start-up, and the unguarded `while True` body
RssCrash ==
  /\ RssRunning
  /\ rss.pc = "start" \/ (rss.pass = "loop" /\ rss.pc \in {"Fetching", "Idle"})
  /\ hist.crashes < MaxCrashes
  /\ rss' = RssDead
  /\ mgr' = [mgr EXCEPT !.rss_task = "failed"]
  /\ hist' = [hist EXCEPT !.crashes = @ + 1]
  /\ UNCHANGED <<bot_log_handler, fmt, hf, now, MAX_AGE_DAYS, POST_ONLY_ON_STRONG_MATCH, seen, x_posts, db_error,
                 tg, x, xtg>>

(***************************************************************************)
(* X poller: wildmeta_x_feed_bot.run_loop and process_x_feed.              *)
(***************************************************************************)
Post(post_id, timestamp, raises) ==
  [post_id |-> post_id, timestamp |-> timestamp, raises |-> raises]

PostOne == Post("p1", Some(Now0), "none")
PostTwo == Post("p2", None, "none")
PostBad == Post("p3", None, "format_x_post_message")

\* the timeline pages the mirrors (or x.com) can serve, newest first
XPages == {<<PostBad, PostOne, PostTwo>>}

\* fetch_x_posts: the first MAX_POSTS_PER_CYCLE items of the page
fetch_x_posts(page) == SubSeq(page, 1, IF Len(page) < MAX_POSTS_PER_CYCLE THEN Len(page)
                                       ELSE MAX_POSTS_PER_CYCLE)

\* the mirrors fetch_x_posts_nitter tries in turn
NITTER_INSTANCES == 4

PostIds == <<"p1", "p2", "p3", "p4", "p5", "p6">>

\* a timeline page of n items, newest first; the items in `broken` have no
\* status link
TimelinePage(n, broken) ==
  [k \in 1..n |-> Post(PostIds[k], None, IF k \in broken THEN "no_link" ELSE "none")]

\* what a mirror, or x.com, answers: a status other than 200, an exception
\* of the request, or a page
Answer(kind, items) == [kind |-> kind, items |-> items]

\* timeline_items[:MAX_POSTS_PER_CYCLE] and articles[:MAX_POSTS_PER_CYCLE]
timeline_slice_all(items) == items

timeline_slice(items) ==
  SubSeq(items, 1, IF Len(items) < MAX_POSTS_PER_CYCLE THEN Len(items)
                   ELSE MAX_POSTS_PER_CYCLE)

\* the parse loop: an item without a status link is skipped
RECURSIVE parse_items(_)
parse_items(items) ==
  IF items = <<>> THEN <<>>
  ELSE (IF Head(items).raises = "no_link" THEN <<>> ELSE <<Head(items)>>)
       \o parse_items(Tail(items))

\* fetch_x_posts_nitter: the posts of the first mirror that yields any
RECURSIVE fetch_x_posts_nitter(_)
fetch_x_posts_nitter(answers) ==
  IF answers = <<>> THEN <<>>
  ELSE LET posts == IF Head(answers).kind = "page"
                      THEN parse_items(timeline_slice(Head(answers).items))
                    ELSE <<>>
       IN IF posts # <<>> THEN posts ELSE fetch_x_posts_nitter(Tail(answers))

\* fetch_x_posts_api: the articles of x.com itself
fetch_x_posts_api(answer) ==
  IF answer.kind = "page" THEN parse_items(timeline_slice(answer.items)) ELSE <<>>

\* fetch_x_posts, by the answers of the mirrors and of x.com
fetch_x_posts_either(answers, direct) ==
  LET posts == fetch_x_posts_nitter(answers)
  IN IF posts # <<>> THEN posts ELSE fetch_x_posts_api(direct)

XFresh == [pc |-> "start", pass |-> "initial", posts |-> <<>>, i |-> 0, msg_id |-> None]
XDead == [XFresh EXCEPT !.pc = "dead"]

\* one tg_send_message call: as TgIdle, with the retry counter and the
\* seconds of the backoff in progress after an exception (0 when none)
XTgIdle ==
  [retry_count |-> 0, sends |-> 0, signals |-> 0, sleeps |-> 0, last |-> <<>>,
   backoff |-> 0, result |-> "none"]

XPost == x.posts[x.i]
XKey == XPost.post_id

XSuspended ==
  \/ x.pc \in {"start", "Fetching", "Deduping", "Posting", "Idle", "Paused"}
  \/ x.pc = "Delivering" /\ (xtg.last # <<>> \/ xtg.backoff > 0)

XRunning == LoopRuns(mgr.x_task)

\* process_x_feed returned: the sleep of the main loop comes next
XCycleEnd(r) == [r EXCEPT !.pc = "Idle", !.pass = "loop", !.posts = <<>>, !.i = 0,
                          !.msg_id = None]

XNextPost(r) ==
  IF r.i < Len(r.posts) THEN [r EXCEPT !.pc = "Deduping", !.i = @ + 1, !.msg_id = None]
  ELSE XCycleEnd(r)

\* except Exception in the for-loop of process_x_feed: log, continue
XPostError(r) == XNextPost(r)

XStart ==
  /\ XRunning /\ x.pc = "start"
  /\ x_posts' = x_init_db(x_posts)
  /\ x' = [x EXCEPT !.pc = "Fetching"]
  /\ UNCHANGED <<bot_log_handler, fmt, hf, now, MAX_AGE_DAYS, POST_ONLY_ON_STRONG_MATCH, seen, db_error, rss, tg,
                 xtg, mgr, hist>>

\* fetch_x_posts: no posts, or an error, ends the cycle
XFetch ==
  /\ XRunning /\ x.pc = "Fetching"
  /\ \/ x' = XCycleEnd(x)
     \/ \E page \in XPages : x' = XNextPost([x EXCEPT !.posts = fetch_x_posts(page), !.i = 0])
  /\ UNCHANGED <<bot_log_handler, fmt, hf, now, MAX_AGE_DAYS, POST_ONLY_ON_STRONG_MATCH, seen, x_posts, db_error,
                 rss, tg, xtg, mgr, hist>>

\* seen_before, then tg_send_with_preview formats the message
XDedup ==
  /\ XRunning /\ x.pc = "Deduping"
  /\ IF x_seen_before(x_posts, XKey) THEN x' = XNextPost(x) /\ xtg' = xtg
     ELSE IF XPost.raises = "format_x_post_message" THEN x' = XPostError(x) /\ xtg' = xtg
     ELSE x' = [x EXCEPT !.pc = "Delivering"] /\ xtg' = XTgIdle
  /\ UNCHANGED <<bot_log_handler, fmt, hf, now, MAX_AGE_DAYS, POST_ONLY_ON_STRONG_MATCH, seen, x_posts, db_error,
                 rss, tg, mgr, hist>>

\* tg_send_message: client.post is issued (while retry_count < max_retries)
XSend ==
  /\ XRunning /\ x.pc = "Delivering"
  /\ x' = [x EXCEPT !.pc = "Posting"]
  /\ xtg' = [xtg EXCEPT !.sends = @ + 1, !.last = <<>>, !.backoff = 0]
  /\ hist' = ObserveSend(hist, Key("x", XKey))
  /\ UNCHANGED <<bot_log_handler, fmt, hf, now, MAX_AGE_DAYS, POST_ONLY_ON_STRONG_MATCH, seen, x_posts, db_error,
                 rss, tg, mgr>>

\* the sleep tg_send_message asks for on a rate-limit answer it can read
x_retry_after(resp) ==
  IF resp.retry_after = None THEN X_DEFAULT_RETRY_AFTER ELSE Val(resp.retry_after)

Pow2(n) == IF n = 0 THEN 1 ELSE IF n = 1 THEN 2 ELSE IF n = 2 THEN 4 ELSE 8

\* the loop test `while retry_count < max_retries`, falling out to return None
XLoopTestUnbounded(call) == call

XLoopTest(call) ==
  IF call.result = "retry" /\ call.retry_count >= max_retries
    THEN [call EXCEPT !.result = "none_returned"]
  ELSE call

\* tg_send_message: the answer to the post
tg_send_message_on_response(call, resp) ==
  XLoopTest(
    IF resp.kind \in {"rate_limited", "rate_limited_no_json"}
      THEN [call EXCEPT !.signals = @ + 1,
                        !.sleeps = @ + 1,
                        !.last = <<resp.retry_after, x_retry_after(resp), resp.kind>>,
                        !.retry_count = @ + 1,
                        !.result = "retry"]
    \* retry_after is handed to asyncio.sleep as it is: a value that is not
    \* a number raises TypeError there, into the except Exception of the
    \* loop body, whose sleep is the backoff (none after the last attempt)
    ELSE IF resp.kind = "rate_limited_not_number"
      THEN [call EXCEPT !.signals = @ + 1,
                        !.retry_count = @ + 1,
                        !.sleeps = IF call.retry_count + 1 < max_retries THEN @ + 1 ELSE @,
                        !.backoff = IF call.retry_count + 1 < max_retries
                                      THEN Pow2(call.retry_count + 1) ELSE 0,
                        !.last = <<resp.retry_after,
                                   IF call.retry_count + 1 < max_retries
                                     THEN Pow2(call.retry_count + 1) ELSE 0,
                                   resp.kind>>,
                        !.result = "retry"]
    ELSE IF resp.kind = "ok" THEN [call EXCEPT !.result = "id_returned"]
    ELSE IF resp.kind = "not_ok" THEN [call EXCEPT !.result = "none_returned"]
    ELSE [call EXCEPT !.retry_count = @ + 1,
                      !.sleeps = IF call.retry_count + 1 < max_retries THEN @ + 1 ELSE @,
                      !.backoff = IF call.retry_count + 1 < max_retries
                                    THEN Pow2(call.retry_count + 1) ELSE 0,
                      !.result = "retry"])

XResponseOn(answers) ==
  /\ XRunning /\ x.pc = "Posting"
  /\ \E resp \in answers :
       /\ resp.kind \notin {"ok", "not_ok"} => xtg.sends <= max_retries
       /\ LET call == tg_send_message_on_response(xtg, resp)
          IN /\ xtg' = call
             /\ x' = IF call.result = "retry" THEN [x EXCEPT !.pc = "Delivering"]
                     ELSE [x EXCEPT !.pc = "Committing",
                                    !.msg_id = IF call.result = "id_returned" THEN Some(1)
                                               ELSE None]
  /\ UNCHANGED <<bot_log_handler, fmt, hf, now, MAX_AGE_DAYS, POST_ONLY_ON_STRONG_MATCH, seen, x_posts, db_error,
                 rss, tg, mgr, hist>>

XResponse == XResponseOn(Responses)

\* the same, the endpoint giving malformed rate-limit answers as well
XResponseAny == XResponseOn(AllResponses)

\* if msg_id: mark_seen(..., msg_id), sleep 1; else: mark_seen(..., None)
XCommitFailureNotMarked(r) ==
  IF r.msg_id # None
    THEN x_mark_seen(x_posts, r.posts[r.i].post_id, r.posts[r.i].timestamp, r.msg_id)
  ELSE [table |-> x_posts, error |-> FALSE]

XCommitWrite(r) ==
  IF r.msg_id # None
    THEN x_mark_seen(x_posts, r.posts[r.i].post_id, r.posts[r.i].timestamp, r.msg_id)
  ELSE x_mark_seen(x_posts, r.posts[r.i].post_id, r.posts[r.i].timestamp, None)

XCommit ==
  /\ XRunning /\ x.pc = "Committing"
  /\ LET w == XCommitWrite(x)
     IN /\ x_posts' = w.table
        /\ db_error' = (db_error \/ w.error)
        /\ x' = IF w.error THEN XPostError(x) ELSE XNextPost(x)
  /\ xtg' = XTgIdle
  /\ UNCHANGED <<bot_log_handler, fmt, hf, now, MAX_AGE_DAYS, POST_ONLY_ON_STRONG_MATCH, seen, rss, tg, mgr, hist>>

\* asyncio.sleep(POLL_SECONDS) ends
XWake ==
  /\ XRunning /\ x.pc = "Idle"
  /\ x' = [x EXCEPT !.pc = "Fetching"]
  /\ UNCHANGED <<bot_log_handler, fmt, hf, now, MAX_AGE_DAYS, POST_ONLY_ON_STRONG_MATCH, seen, x_posts, db_error,
                 rss, tg, xtg, mgr, hist>>

\* an exception in the body of the main loop, outside process_x_feed (the
\* sleep, the cycle log): `except Exception` logs it and sleeps 30 seconds
XLoopErrorEscapes ==
  /\ XRunning /\ x.pass = "loop" /\ x.pc = "Idle"
  /\ x' = XDead
  /\ mgr' = [mgr EXCEPT !.x_task = "failed"]
  /\ UNCHANGED <<bot_log_handler, fmt, hf, now, MAX_AGE_DAYS, POST_ONLY_ON_STRONG_MATCH, seen, x_posts, db_error,
                 rss, tg, xtg, hist>>

XLoopError ==
  /\ XRunning /\ x.pass = "loop" /\ x.pc = "Idle"
  /\ x' = [x EXCEPT !.pc = "Paused"]
  /\ UNCHANGED <<bot_log_handler, fmt, hf, now, MAX_AGE_DAYS, POST_ONLY_ON_STRONG_MATCH, seen, x_posts, db_error,
                 rss, tg, xtg, mgr, hist>>

\* the 30 seconds are over: the loop goes round, to the sleep of the poll
XResume ==
  /\ XRunning /\ x.pc = "Paused"
  /\ x' = [x EXCEPT !.pc = "Idle"]
  /\ UNCHANGED <<bot_log_handler, fmt, hf, now, MAX_AGE_DAYS, POST_ONLY_ON_STRONG_MATCH, seen, x_posts, db_error,
                 rss, tg, xtg, mgr, hist>>

\* only init_db and the client construction run outside a try block
XCrash ==
  /\ XRunning /\ x.pc = "start"
  /\ hist.crashes < MaxCrashes
  /\ x' = XDead
  /\ mgr' = [mgr EXCEPT !.x_task = "failed"]
  /\ hist' = [hist EXCEPT !.crashes = @ + 1]
  /\ UNCHANGED <<bot_log_handler, fmt, hf, now, MAX_AGE_DAYS, POST_ONLY_ON_STRONG_MATCH, seen, x_posts, db_error,
                 rss, tg, xtg>>

\* run_loop's `except KeyboardInterrupt: break` in the main loop: the task
\* ends without an exception
XInterrupt ==
  /\ XRunning /\ x.pass = "loop" /\ x.pc = "Idle"
  /\ x' = XDead
  /\ mgr' = [mgr EXCEPT !.x_task = "finished"]
  /\ UNCHANGED <<bot_log_handler, fmt, hf, now, MAX_AGE_DAYS, POST_ONLY_ON_STRONG_MATCH, seen, x_posts, db_error,
                 rss, tg, xtg, hist>>

(***************************************************************************)
(* Supervisor: wildmeta_bot_manager.BotManager.                            *)
(***************************************************************************)
Modes == {"both", "rss_only", "x_only"}

\* BotManager.start: one task per enabled bot, then the health monitor
StartIgnoresMode ==
  /\ ~mgr.started
  /\ \E mode \in Modes :
       mgr' = [mgr EXCEPT !.started = TRUE,
                          !.phase = "waiting",
                          !.monitor_task = "running",
                          !.rss_enabled = (mode # "x_only"),
                          !.x_enabled = (mode # "rss_only"),
                          !.rss_task = "running",
                          !.x_task = "running"]
  /\ UNCHANGED <<bot_log_handler, fmt, hf, now, MAX_AGE_DAYS, POST_ONLY_ON_STRONG_MATCH, seen, x_posts, db_error,
                 rss, tg, x, xtg, hist>>

Start ==
  /\ ~mgr.started
  /\ \E mode \in Modes :
       mgr' = [mgr EXCEPT !.started = TRUE,
                          !.phase = "waiting",
                          !.monitor_task = "running",
                          !.rss_enabled = (mode # "x_only"),
                          !.x_enabled = (mode # "rss_only"),
                          !.rss_task = IF mode # "x_only" THEN "running" ELSE "none",
                          !.x_task = IF mode # "rss_only" THEN "running" ELSE "none"]
  /\ UNCHANGED <<bot_log_handler, fmt, hf, now, MAX_AGE_DAYS, POST_ONLY_ON_STRONG_MATCH, seen, x_posts, db_error,
                 rss, tg, x, xtg, hist>>

\* one sweep of health_monitor: a task done with an exception is recreated
HealthRestartNever(enabled, task) == FALSE
HealthRestartDone(enabled, task) == enabled /\ task \in {"failed", "finished"}
HealthRestartLive(enabled, task) == enabled /\ task \in {"failed", "running"}
HealthRestart(enabled, task) == enabled /\ task # "none" /\ task = "failed"

health_monitor ==
  /\ mgr.started /\ mgr.monitor_task = "running"
  /\ LET rr == HealthRestart(mgr.rss_enabled, mgr.rss_task)
         xr == HealthRestart(mgr.x_enabled, mgr.x_task)
     IN /\ rr \/ xr
        /\ mgr' = [mgr EXCEPT !.rss_task = IF rr THEN "running" ELSE @,
                              !.x_task = IF xr THEN "running" ELSE @,
                              !.rss_replaced = IF rr THEN Append(@, mgr.rss_task) ELSE @,
                              !.x_replaced = IF xr THEN Append(@, mgr.x_task) ELSE @]
        /\ rss' = IF rr THEN RssFresh ELSE rss
        /\ tg' = IF rr THEN TgIdle ELSE tg
        /\ x' = IF xr THEN XFresh ELSE x
        /\ xtg' = IF xr THEN XTgIdle ELSE xtg
        /\ hist' = [hist EXCEPT !.rss_restarts = IF rr THEN @ + 1 ELSE @,
                                !.x_restarts = IF xr THEN @ + 1 ELSE @,
                                !.swept_finished =
                                  @ \/ "finished" \in {mgr.rss_task, mgr.x_task}]
  /\ UNCHANGED <<bot_log_handler, fmt, hf, now, MAX_AGE_DAYS, POST_ONLY_ON_STRONG_MATCH, seen, x_posts, db_error>>

\* the loop test of health_monitor: the monitor returns once the event is set
MonitorExit ==
  /\ mgr.monitor_task = "running" /\ mgr.shutdown_event
  /\ mgr' = [mgr EXCEPT !.monitor_task = "finished"]
  /\ UNCHANGED <<bot_log_handler, fmt, hf, now, MAX_AGE_DAYS, POST_ONLY_ON_STRONG_MATCH, seen, x_posts, db_error,
                 rss, tg, x, xtg, hist>>

\* signal_handler and BotManager.shutdown: the event is set
shutdown ==
  /\ ~mgr.shutdown_event /\ mgr.phase \in {"init", "waiting"}
  /\ mgr' = [mgr EXCEPT !.shutdown_event = TRUE]
  /\ UNCHANGED <<bot_log_handler, fmt, hf, now, MAX_AGE_DAYS, POST_ONLY_ON_STRONG_MATCH, seen, x_posts, db_error,
                 rss, tg, x, xtg, hist>>

\* the handle start() put in its local list `tasks` for a source: the first
\* task created for it, whatever health_monitor stored in self.*_task since
FirstHandle(task, replaced) == IF replaced = <<>> THEN task ELSE replaced[1]

\* task.cancel() on a task that is not done
Cancel(task) == IF Live(task) THEN "cancelling" ELSE task

\* start() after the event: `for task in tasks: if not task.done(): cancel`.
\* start() runs while every other task is suspended at an await.
StartCancel ==
  /\ mgr.phase = "waiting" /\ mgr.shutdown_event
  /\ Live(mgr.rss_task) => RssSuspended
  /\ Live(mgr.x_task) => XSuspended
  /\ mgr' = [mgr EXCEPT
       !.phase = "gathering",
       !.rss_task = IF mgr.rss_replaced = <<>> THEN Cancel(@) ELSE @,
       !.x_task = IF mgr.x_replaced = <<>> THEN Cancel(@) ELSE @,
       !.rss_replaced = IF @ = <<>> THEN @ ELSE [@ EXCEPT ![1] = Cancel(@)],
       !.x_replaced = IF @ = <<>> THEN @ ELSE [@ EXCEPT ![1] = Cancel(@)],
       !.monitor_task = IF Live(@) THEN "cancelled" ELSE @]
  /\ UNCHANGED <<bot_log_handler, fmt, hf, now, MAX_AGE_DAYS, POST_ONLY_ON_STRONG_MATCH, seen, x_posts, db_error,
                 rss, tg, x, xtg, hist>>

\* CancelledError is raised in the task at the await it is suspended on; it
\* is no Exception, so no handler of the pollers catches it
RssCancelled ==
  /\ mgr.rss_task = "cancelling" /\ RssSuspended
  /\ mgr' = [mgr EXCEPT !.rss_task = "cancelled"]
  /\ UNCHANGED <<bot_log_handler, fmt, hf, now, MAX_AGE_DAYS, POST_ONLY_ON_STRONG_MATCH, seen, x_posts, db_error,
                 rss, tg, x, xtg, hist>>

XCancelled ==
  /\ mgr.x_task = "cancelling" /\ XSuspended
  /\ mgr' = [mgr EXCEPT !.x_task = "cancelled"]
  /\ UNCHANGED <<bot_log_handler, fmt, hf, now, MAX_AGE_DAYS, POST_ONLY_ON_STRONG_MATCH, seen, x_posts, db_error,
                 rss, tg, x, xtg, hist>>

\* asyncio.gather(*tasks, return_exceptions=...): how the wait ends once
\* every task of the list is done
gather_raises(first_rss, first_x, monitor) ==
  IF {first_rss, first_x, monitor} \cap {"failed", "cancelled"} # {} THEN "raised"
  ELSE "returned"

gather(first_rss, first_x, monitor) == "returned"

\* start() returns when the gather is over
StartReturn ==
  /\ mgr.phase = "gathering"
  /\ LET first_rss == FirstHandle(mgr.rss_task, mgr.rss_replaced)
         first_x == FirstHandle(mgr.x_task, mgr.x_replaced)
     IN /\ ~Live(first_rss) /\ ~Live(first_x) /\ ~Live(mgr.monitor_task)
        /\ mgr' = [mgr EXCEPT !.phase = gather(first_rss, first_x, mgr.monitor_task)]
  /\ UNCHANGED <<bot_log_handler, fmt, hf, now, MAX_AGE_DAYS, POST_ONLY_ON_STRONG_MATCH, seen, x_posts, db_error,
                 rss, tg, x, xtg, hist>>

(***************************************************************************)
(* The sentiment scorer (sentiment_ensemble) of the feed poller.  A text   *)
(* is what the scorer reads of it: its length, the whitespace strip()      *)
(* removes, and the hawkish / dovish cue phrases in its first 1200         *)
(* characters.  Confidences are in millionths, compounds in hundredths     *)
(* and scores in two-hundredths, so that every float of the code is an     *)
(* integer here.                                                           *)
(***************************************************************************)
Min(a, b) == IF a <= b THEN a ELSE b
Max(a, b) == IF a >= b THEN a ELSE b

\* a / b of two numbers, b > 0, rounded towards zero
Quot(a, b) == IF a >= 0 THEN a \div b ELSE -((-a) \div b)

\* _finbert = None, _rob = None, and no call made yet
HfFresh == [finbert |-> FALSE, rob |-> FALSE, load_failed |-> FALSE, last |-> None]

\* if len(text) < 16
is_short_never(n) == FALSE

is_short(n) == n < SHORT_TEXT

\* the result built from VADER's compound alone
lexicon_only(comp) ==
  [label |-> IF comp >= 30 THEN "pos" ELSE IF comp <= -30 THEN "neg" ELSE "neu",
   score |-> comp + 100, compound |-> comp,
   finbert |-> None, roberta |-> None, vader |-> Some(comp)]

\* load_hf_models: nothing to do once both pipelines exist; otherwise the
\* import, the FinBERT load and the RoBERTa load, each of which may raise
load_hf_models(st, outcome) ==
  IF st.finbert /\ st.rob
    THEN [finbert |-> TRUE, rob |-> TRUE, attempted |-> FALSE, raised |-> FALSE]
  ELSE IF outcome \in {"import_fails", "finbert_fails"}
    THEN [finbert |-> st.finbert, rob |-> st.rob, attempted |-> TRUE, raised |-> TRUE]
  ELSE IF outcome = "rob_fails"
    THEN [finbert |-> TRUE, rob |-> st.rob, attempted |-> TRUE, raised |-> TRUE]
  ELSE [finbert |-> TRUE, rob |-> TRUE, attempted |-> TRUE, raised |-> FALSE]

\* as_num_fin / as_num_rob on a mapped label
as_num(label) == IF label = "pos" THEN 1 ELSE IF label = "neg" THEN -1 ELSE 0

\* comp = max(-1.0, min(1.0, comp))
clamp_off(comp) == comp

clamp(comp) == Max(-100, Min(100, comp))

\* the weighted compound of the two classifiers, the cue nudges, the clamp
ensemble_compound(lf, sf, lr, sr, hawkish, dovish) ==
  LET nf == as_num(lf)
      nr == as_num(lr)
      wf == 6 * sf                          \* 0.6 * sf, in ten-millionths
      wr == 4 * sr                          \* 0.4 * sr
      denom == Max(10, wf + wr)             \* max(1e-6, wf + wr)
      comp0 == Quot((nf * wf + nr * wr) * 100, denom)
      comp1 == IF hawkish THEN comp0 - 5 ELSE comp0
      comp2 == IF dovish THEN comp1 + 5 ELSE comp1
  IN clamp(comp2)

\* the text the except handler hands to VADER: text, not t = text[:1200]
fallback_text_truncated(n, t) == t

fallback_text(n, t) == n

\* one call of sentiment_ensemble in scorer state st; env is what the
\* libraries do during the call.  The result is the scorer state after it,
\* with the call recorded in last.
sentiment_ensemble(text, st, env) ==
  LET n == text.len - text.pad              \* len(text.strip())
      t == Min(n, HF_TEXT_LIMIT)            \* len(text[:1200])
      ld == load_hf_models(st, env.load)
      lexicon(len, loads, invoked, error) ==
        [text |-> text, loads |-> loads, invoked |-> invoked, error |-> error,
         lexicon_len |-> Some(len), raised |-> FALSE,
         result |-> lexicon_only(env.vader)]
      comp == ensemble_compound(env.lf, env.sf, env.lr, env.sr,
                                text.hawkish, text.dovish)
  IN IF is_short(n)
       THEN [st EXCEPT !.last = Some(lexicon(n, FALSE, {}, None))]
     ELSE IF ld.raised
       THEN [finbert |-> ld.finbert, rob |-> ld.rob, load_failed |-> TRUE,
             last |-> Some(lexicon(fallback_text(n, t), TRUE, {}, Some("load")))]
     ELSE IF env.invoke = "finbert_raises"
       THEN [finbert |-> ld.finbert, rob |-> ld.rob, load_failed |-> st.load_failed,
             last |-> Some(lexicon(fallback_text(n, t), ld.attempted, {"finbert"},
                                   Some("invoke")))]
     ELSE IF env.invoke = "rob_raises"
       THEN [finbert |-> ld.finbert, rob |-> ld.rob, load_failed |-> st.load_failed,
             last |-> Some(lexicon(fallback_text(n, t), ld.attempted,
                                   {"finbert", "roberta"}, Some("invoke")))]
     ELSE [finbert |-> ld.finbert, rob |-> ld.rob, load_failed |-> st.load_failed,
           last |-> Some([text |-> text, loads |-> ld.attempted,
                          invoked |-> {"finbert", "roberta"}, error |-> None,
                          lexicon_len |-> None, raised |-> FALSE,
                          result |->
                            [label |-> IF comp >= 25 THEN "pos"
                                       ELSE IF comp <= -25 THEN "neg" ELSE "neu",
                             score |-> comp + 100, compound |-> comp,
                             finbert |-> Some([label |-> env.lf, score |-> env.sf]),
                             roberta |-> Some([label |-> env.lr, score |-> env.sr]),
                             vader |-> None]])]

(***************************************************************************)
(* Message rendering.  A string is a sequence of characters; escaping      *)
(* replaces a character by its entity, written as one element.  A rendered *)
(* message is the sequence of its pieces in order: the markup the          *)
(* formatter writes itself, and one piece per item field, with the         *)
(* position it is written to (text, or the value of an attribute).         *)
(***************************************************************************)
\* s * k
Rep(c, k) == [i \in 1..k |-> c]

\* h(x): html.escape(x, quote=False)
html_escape(str) ==
  [i \in 1..Len(str) |->
     CASE str[i] = "<" -> "&lt;"
       [] str[i] = ">" -> "&gt;"
       [] str[i] = "&" -> "&amp;"
       [] OTHER -> str[i]]

RECURSIVE rstrip(_)
rstrip(str) ==
  IF str = <<>> \/ str[Len(str)] # " " THEN str
  ELSE rstrip(SubSeq(str, 1, Len(str) - 1))

\* clip(s, n); "..." stands for the one-character ellipsis
clip(str, n) ==
  IF Len(str) <= n THEN str
  ELSE Append(rstrip(SubSeq(str, 1, n)), "...")

\* first_nonempty(*vals)
first_nonempty(vals) ==
  IF \E i \in 1..Len(vals) : vals[i] # <<>>
    THEN vals[CHOOSE i \in 1..Len(vals) :
                /\ vals[i] # <<>>
                /\ \A j \in 1..(i - 1) : vals[j] = <<>>]
  ELSE <<>>

\* an URL is its network location and what follows it
UrlString(url) == <<"https://">> \o url.host \o <<"/">> \o url.path

\* host_of(url): urlparse(url).netloc
host_of(url) == url.host

Markup(str) == [src |-> "markup", ctx |-> "text", s |-> <<str>>]
Piece(src, ctx, str) == [src |-> src, ctx |-> ctx, s |-> str]

\* format_insights_block: the host is written as it is
format_insights_block(url) ==
  <<Markup("<i>"), Piece("host", "text", host_of(url)), Markup("</i> min words")>>

\* format_message; the sentiment block and the tag line are the
\* formatter's own text
format_message(feed_title, title, url, summary) ==
  <<Markup("<b>"), Piece("title", "text", html_escape(title)), Markup("</b>"),
    Piece("feed_title", "text", html_escape(feed_title)),
    Markup("sentiment"),
    Piece("summary", "text", html_escape(clip(summary, SUMMARY_BUDGET))),
    Markup("tags")>>
  \o format_insights_block(url)
  \o <<Markup("<a href=\""), Piece("url", "attr", html_escape(UrlString(url))), Markup("\">"),
       Piece("url", "text", html_escape(UrlString(url))), Markup("</a>")>>

\* XPost.url
XPostUrl(username, post_id) ==
  <<"https://x.com/">> \o username \o <<"/status/">> \o post_id

\* format_x_post_message; the strings of the model hold neither "@" nor
\* "#", so the two re.sub calls leave the escaped content as it is
format_x_post_message(post) ==
  <<Markup("<b>@"), Piece("username", "text", html_escape(post.username)), Markup("</b>")>>
  \o (IF post.content # <<>>
        THEN <<Piece("content", "text", html_escape(post.content))>> ELSE <<>>)
  \o (IF post.replies # <<>>
        THEN <<Markup("replies "), Piece("metrics", "text", post.replies)>> ELSE <<>>)
  \o <<Markup("<a href=\""),
       Piece("url", "attr", html_escape(XPostUrl(post.username, post.post_id))),
       Markup("\">View on X</a>")>>

\* format_message, the tag list: `tags or []` is the caller's list itself
\* when that is not empty, and a new list otherwise; "Hyperliquid" is
\* appended in place.  The list used for the text, and what the caller's
\* argument is when the call has returned.
tag_list(tags, hyper) ==
  LET own == tags # None /\ Val(tags) # <<>>
      used == IF own THEN Val(tags) ELSE <<>>
      list == IF hyper /\ ~(\E t \in 1..Len(used) : used[t] = "Hyperliquid")
                THEN Append(used, "Hyperliquid") ELSE used
  IN [tag_list |-> list, tags |-> IF own THEN Some(list) ELSE tags]

\* tags_line: "#" and the tag, for each tag of the list
tags_line(list) == [t \in 1..Len(list) |-> <<"#", list[t]>>]

\* one call of format_message by a caller holding the arguments: the text
\* returned, and the caller's arguments after the call
format_message_call(args) ==
  LET t == tag_list(args.tags, args.hyper)
  IN [text |-> <<format_message(args.item.feed_title, args.item.title, args.item.url,
                                args.item.summary),
                 tags_line(t.tag_list)>>,
      args |-> [args EXCEPT !.tags = t.tags]]

\* no formatter call made
FmtIdle == [kind |-> "none", item |-> <<>>, out |-> None]

(***************************************************************************)
(* The log handler of the manager (BotLogHandler), attached to the loggers *)
(* of the two pollers and of the manager.  A record is its logger's name,  *)
(* its level and its message; the message of the model is the record's     *)
(* arrival number.  rss_logged and x_logged keep every error-level record  *)
(* of each poller's logger, as a reference for the handler's lists.        *)
(***************************************************************************)
Loggers == {"macro-crypto-bot", "wildmeta-x-bot", "bot-manager"}

\* a handler that has seen no record
BotLogHandlerInit ==
  [rss_errors |-> <<>>, x_errors |-> <<>>,
   rss_logged |-> <<>>, x_logged |-> <<>>, emitted |-> 0]

\* errors[-10:]
LastOf(errors, n) ==
  IF Len(errors) <= n THEN errors
  ELSE SubSeq(errors, Len(errors) - n + 1, Len(errors))

\* BotLogHandler.emit (the error lists; the time of an entry is left out)
emit_no_trim(handler, record) ==
  IF record.levelno >= LOGGING_ERROR
    THEN IF record.name = "macro-crypto-bot"
           THEN [handler EXCEPT !.rss_errors = Append(@, record.message)]
         ELSE IF record.name = "wildmeta-x-bot"
           THEN [handler EXCEPT !.x_errors = Append(@, record.message)]
         ELSE handler
  ELSE handler

emit(handler, record) ==
  IF record.levelno >= LOGGING_ERROR
    THEN IF record.name = "macro-crypto-bot"
           THEN [handler EXCEPT !.rss_errors =
                   LastOf(Append(@, record.message), ERRORS_KEPT)]
         ELSE IF record.name = "wildmeta-x-bot"
           THEN [handler EXCEPT !.x_errors =
                   LastOf(Append(@, record.message), ERRORS_KEPT)]
         ELSE handler
  ELSE handler

\* BotManager.get_status: the recent-error counts of the snapshot
get_status(handler) ==
  [rss_bot |-> [recent_errors |-> Len(handler.rss_errors)],
   x_bot |-> [recent_errors |-> Len(handler.x_errors)]]

(***************************************************************************)
(* The system.                                                             *)
(***************************************************************************)
HistInit ==
  [sent_while_seen |-> {}, gave_up_on_429 |-> FALSE, crashes |-> 0, rss_restarts |-> 0,
   x_restarts |-> 0, marked |-> {}, remarked |-> {}, swept_finished |-> FALSE]

Init ==
  /\ now = Now0
  /\ MAX_AGE_DAYS = 2
  /\ POST_ONLY_ON_STRONG_MATCH = FALSE
  /\ seen = {}
  /\ x_posts = {}
  /\ db_error = FALSE
  /\ rss = RssFresh
  /\ tg = TgIdle
  /\ x = XFresh
  /\ xtg = XTgIdle
  /\ mgr = [started |-> FALSE, rss_enabled |-> TRUE, x_enabled |-> TRUE,
            rss_task |-> "none", x_task |-> "none", monitor_task |-> "none",
            rss_replaced |-> <<>>, x_replaced |-> <<>>,
            shutdown_event |-> FALSE, phase |-> "init"]
  /\ hist = HistInit
  /\ bot_log_handler = BotLogHandlerInit
  /\ fmt = FmtIdle
  /\ hf = HfFresh

Next ==
  \/ Start
  \/ health_monitor
  \/ RssStart \/ RssFetch \/ RssDedup \/ RssEnrich \/ RssClassify \/ RssFormat
  \/ RssPost \/ RssResponse \/ RssCommit \/ RssWake \/ RssCrash
  \/ XStart \/ XFetch \/ XDedup \/ XSend \/ XResponse \/ XCommit \/ XWake \/ XCrash

\* the run up to a shutdown signal
Spec == Init /\ [][Next]_vars

\* the run with its end: the shutdown signal, the cancellation and the
\* return of start()
NextShutdown ==
  \/ Next
  \/ XInterrupt
  \/ shutdown \/ MonitorExit \/ StartCancel \/ RssCancelled \/ XCancelled \/ StartReturn

SpecShutdown == Init /\ [][NextShutdown]_vars

(***************************************************************************)
(* C1 -- dedup before delivery.                                            *)
(***************************************************************************)
RssInDelivery == rss.pc \in {"Delivering", "Posting"}
XInDelivery == x.pc \in {"Delivering", "Posting"}

\* C1: in every execution, once a dedup record exists for a (source, item
\* key) no send request is issued for that key: no poller is inside its
\* deliver call for a key that has a record, and no send was ever observed
\* for a key that had one.
C1_NoDeliveryOnceSeen ==
  /\ hist.sent_while_seen = {}
  /\ RssInDelivery => Key(RssFeed, RssKey) \notin StoreKeys
  /\ XInDelivery => Key("x", XKey) \notin StoreKeys

\* a later pass meets entry "a" of feed1 again, its record exists, and the
\* poller has moved on to the next entry without entering tg_send
C1_Witness ==
  /\ rss.pass = "loop" /\ rss.pc = "Deduping" /\ RssFeed = "feed1" /\ rss.i = 2
  /\ Key("feed1", "a") \in StoreKeys
  /\ x.pass = "loop" /\ x.pc = "Idle" /\ Key("x", "p1") \in StoreKeys

(***************************************************************************)
(* C2 -- check, then deliver, then commit.                                 *)
(***************************************************************************)
\* C2: for every item of both pollers, a send request is issued only for a
\* key without a record (the check came first), and a record is written
\* only for the item in hand, either after its deliver call has returned
\* (stage Committing, at least one request issued) or at a definitive skip
\* decision (too old at Deduping, filtered out at Classifying); never while
\* the item is on its way to, or inside, the deliver call.
C2_Step ==
  /\ tg'.sends > tg.sends => Key(RssFeed, RssKey) \notin StoreKeys
  /\ xtg'.sends > xtg.sends => Key("x", XKey) \notin StoreKeys
  /\ \A k \in StoreKeys' \ StoreKeys :
       IF k[1] = "x"
         THEN /\ x.pc = "Committing" /\ k = Key("x", XKey)
              /\ xtg.sends >= 1 /\ xtg.result \in {"id_returned", "none_returned"}
       ELSE /\ k = Key(RssFeed, RssKey)
            /\ \/ rss.pc = "Committing" /\ tg.sends >= 1 /\ tg.result = "returned"
               \/ rss.pc \in {"Deduping", "Classifying"} /\ tg.sends = 0

C2_CheckDeliverCommit == [][C2_Step]_vars

\* a delivered entry and a delivered post have been committed
C2_Witness ==
  /\ \E r \in seen : r.feed = "feed1" /\ r.entry_key = "a"
  /\ \E r \in x_posts : r.post_id = "p1" /\ r.telegram_msg_id # None

(***************************************************************************)
(* C3 -- commit after Delivering resolves.                                 *)
(***************************************************************************)
\* C3: for every item that reached Delivering, in both pollers, a dedup
\* record exists once Delivering has resolved (the poller leaves the
\* delivery stages of that item), whether delivery succeeded or failed.
C3_Step ==
  /\ (/\ rss.pc \in {"Delivering", "Posting", "Committing"}
      /\ rss'.pc \notin {"Delivering", "Posting", "Committing"})
       => Key(RssFeed, RssKey) \in StoreKeys'
  /\ (/\ x.pc \in {"Delivering", "Posting", "Committing"}
      /\ x'.pc \notin {"Delivering", "Posting", "Committing"})
       => Key("x", XKey) \in StoreKeys'

C3_CommitAfterDelivering == [][C3_Step]_vars

(***************************************************************************)
(* C4 -- restart without redelivery.                                       *)
(***************************************************************************)
\* C4: no step removes a dedup record, in particular not the restart of a
\* crashed task nor the store initialisation it runs again, and a task
\* that was restarted issues no send request for a key that has a record:
\* an item committed before the crash is never delivered again.
C4_Step ==
  /\ StoreKeys \subseteq StoreKeys'
  /\ (hist.rss_restarts > 0 /\ tg'.sends > tg.sends)
       => Key(RssFeed, RssKey) \notin StoreKeys
  /\ (hist.x_restarts > 0 /\ xtg'.sends > xtg.sends)
       => Key("x", XKey) \notin StoreKeys

C4_RestartKeepsRecords == [][C4_Step]_vars

\* the restarted feed task is back at entry "a", committed before the crash
C4_Witness ==
  /\ hist.rss_restarts > 0 /\ rss.pass = "initial" /\ RssFeed = "feed1"
  /\ rss.pc = "Deduping" /\ rss.i = 1 /\ RssKey = "a"
  /\ Key("feed1", "a") \in StoreKeys

(***************************************************************************)
(* C5 -- age ceiling.                                                      *)
(***************************************************************************)
Older(published) ==
  published # None /\ (now - Val(published)) > MAX_AGE_DAYS * DAY

\* C5: a fetched, not-yet-seen item whose published timestamp is older than
\* the ceiling (epoch 0 included) never reaches enrichment, classification,
\* formatting or the outbound channel.
C5_OlderNeverProcessed ==
  rss.pc \in {"Enriching", "Classifying", "Formatting", "Delivering", "Posting",
              "Committing"}
    => ~Older(RssEntry.published)

(***************************************************************************)
(* C6 -- idempotent record-seen, checked on the stores alone: any          *)
(* sequence of mark_seen calls of both stores, with the clock advancing.   *)
(***************************************************************************)
ObserveMark(h, k) ==
  IF k \in h.marked THEN [h EXCEPT !.remarked = @ \cup {k}]
  ELSE [h EXCEPT !.marked = @ \cup {k}]

StoreMarkRss ==
  /\ \E feed \in {"feed1"}, key \in {"a", "b"}, published_ts \in {None, Some(0)} :
       LET w == rss_mark_seen(seen, feed, key, published_ts)
       IN /\ seen' = w.table
          /\ db_error' = (db_error \/ w.error)
          /\ hist' = ObserveMark(hist, Key(feed, key))
  /\ UNCHANGED <<bot_log_handler, fmt, hf, now, MAX_AGE_DAYS, POST_ONLY_ON_STRONG_MATCH, x_posts, rss, tg, x, xtg, mgr>>

StoreMarkX ==
  /\ \E post_id \in {"p1", "p2"}, posted_at \in {None, Some(Now0)},
        telegram_msg_id \in {None, Some(1)} :
       LET w == x_mark_seen(x_posts, post_id, posted_at, telegram_msg_id)
       IN /\ x_posts' = w.table
          /\ db_error' = (db_error \/ w.error)
          /\ hist' = ObserveMark(hist, Key("x", post_id))
  /\ UNCHANGED <<bot_log_handler, fmt, hf, now, MAX_AGE_DAYS, POST_ONLY_ON_STRONG_MATCH, seen, rss, tg, x, xtg, mgr>>

StoreTick ==
  /\ now < Now0 + MaxDays * DAY
  /\ now' = now + DAY
  /\ UNCHANGED <<bot_log_handler, fmt, hf, MAX_AGE_DAYS, POST_ONLY_ON_STRONG_MATCH, seen, x_posts, db_error, rss, tg,
                 x, xtg, mgr, hist>>

NextStore == StoreMarkRss \/ StoreMarkX \/ StoreTick

SpecStore == Init /\ [][NextStore]_vars

RowsOf(k) ==
  IF k[1] = "x" THEN {r \in x_posts : r.post_id = k[2]}
  ELSE {r \in seen : r.feed = k[1] /\ r.entry_key = k[2]}

\* C6: after one or more record-seen calls for a (source, key), in either
\* store, the store holds exactly one record for that key, has(source, key)
\* is true, and no call has raised.
C6_IdempotentMarkSeen ==
  /\ ~db_error
  /\ \A k \in hist.marked :
       /\ Cardinality(RowsOf(k)) = 1
       /\ IF k[1] = "x" THEN x_seen_before(x_posts, k[2])
          ELSE rss_seen_before(seen, k[1], k[2])

\* a key of each store has been recorded a second time
C6_Witness ==
  /\ Key("feed1", "a") \in hist.remarked
  /\ Key("x", "p1") \in hist.remarked

(***************************************************************************)
(* C7 -- rate-limit resilience of the two deliver calls.                   *)
(***************************************************************************)
ExpectedSleep(signal, default) == IF signal = None THEN default ELSE Val(signal)

\* one sleep per rate-limit signal, and the sleep in progress is of the
\* duration its signal suggests (every sleep of the call is in progress in
\* the state its signal leads to)
SleepsMatch(call, default) ==
  /\ call.sleeps = call.signals
  /\ call.last # <<>> => call.last[2] = ExpectedSleep(call.last[1], default)

\* the feed variant: after N signals the call is still going, N+1 requests
\* are out when the answer that is no signal arrives, and the call never
\* ends on a signal
C7_Feed ==
  /\ ~hist.gave_up_on_429
  /\ rss.pc \in {"Delivering", "Posting", "Committing"} =>
       /\ SleepsMatch(tg, RSS_DEFAULT_RETRY_AFTER)
       /\ rss.pc = "Delivering" => tg.sends = tg.signals
       /\ rss.pc = "Posting" => tg.sends = tg.signals + 1
       /\ rss.pc = "Committing" =>
            tg.sends = tg.signals + 1 /\ tg.result = "returned"

\* the X call has so far been answered by rate-limit signals only
XOnlySignals == xtg.retry_count = xtg.signals

C7_SocialCommon ==
  (x.pc \in {"Delivering", "Posting", "Committing"} /\ XOnlySignals) =>
    /\ SleepsMatch(xtg, X_DEFAULT_RETRY_AFTER)
    /\ (x.pc = "Committing" /\ xtg.result = "id_returned") =>
         xtg.sends = xtg.signals + 1

\* the X call ended although every request of it was answered by a signal
XGaveUpOnSignals ==
  x.pc = "Committing" /\ XOnlySignals /\ xtg.sends = xtg.signals

\* C7 as stated: for every N, N rate-limit signals followed by a success
\* make the channel sleep once per signal for the suggested duration, issue
\* N+1 requests and return success from the same call: neither variant
\* ends a call on a rate-limit signal.
C7_RateLimitAlwaysRetried ==
  /\ C7_Feed
  /\ C7_SocialCommon
  /\ ~XGaveUpOnSignals

\* C7 amended: as stated for the feed variant (every N) and for the X
\* variant while N <= 2; the X variant ends the call without an id on its
\* third rate-limit signal, after exactly 3 requests.
C7_RateLimitRetriedWithinBudget ==
  /\ C7_Feed
  /\ C7_SocialCommon
  /\ XGaveUpOnSignals =>
       /\ xtg.signals = max_retries /\ xtg.sends = max_retries
       /\ xtg.result = "none_returned" /\ x.msg_id = None
  /\ (x.pc \in {"Delivering", "Posting"} /\ XOnlySignals) =>
       xtg.signals < max_retries

\* both calls returned success after two rate-limit signals each
C7_Witness ==
  /\ rss.pc = "Committing" /\ tg.signals = 2 /\ tg.sends = 3
  /\ x.pc = "Committing" /\ xtg.signals = 2 /\ xtg.result = "id_returned"

(***************************************************************************)
(* C8 -- the X deliver call is bounded and terminates.  The event loop     *)
(* runs every ready task and every request carries a timeout, so a         *)
(* pending send is issued and a pending request is answered: weak          *)
(* fairness on XSend and XResponse.                                        *)
(***************************************************************************)
StartXOnly == Start /\ ~mgr'.rss_enabled

NextSocial ==
  \/ StartXOnly
  \/ health_monitor
  \/ XStart \/ XFetch \/ XDedup \/ XSend \/ XResponse \/ XCommit \/ XWake \/ XCrash

SpecSocial ==
  Init /\ [][NextSocial]_vars /\ WF_vars(XSend) /\ WF_vars(XResponse)

C8_Bounded ==
  /\ xtg.sends <= max_retries
  /\ x.pc = "Delivering" => xtg.sends = xtg.retry_count /\ xtg.retry_count < max_retries
  /\ x.pc = "Posting" => xtg.sends = xtg.retry_count + 1
  /\ x.pc = "Committing" =>
       /\ xtg.result \in {"id_returned", "none_returned"}
       /\ xtg.result = "id_returned" <=> x.msg_id # None
       /\ xtg.retry_count = max_retries => x.msg_id = None

\* C8: one tg_send_message call issues at most 3 send requests, whatever
\* the answers (rate limits, error statuses, exceptions), and always ends:
\* with an id on success, with none once the 3 attempts are used up.
C8_SendBoundedAndTerminates ==
  /\ []C8_Bounded
  /\ XInDelivery ~> (x.pc = "Committing")

\* the call ended without an id after three failed requests of mixed kinds
C8_Witness ==
  /\ x.pc = "Committing" /\ xtg.sends = 3 /\ xtg.retry_count = 3
  /\ xtg.signals = 1 /\ x.msg_id = None

(***************************************************************************)
(* C9 -- a failed X delivery is still committed.                           *)
(***************************************************************************)
\* C9: when the deliver call of an unseen post ends without an id, the step
\* that follows records the post as seen with no confirmation id, and no
\* send request is issued for a post that has a record.
C9_Step ==
  /\ (x.pc = "Committing" /\ x.msg_id = None /\ x' # x) =>
       \E r \in x_posts' : r.post_id = XKey /\ r.telegram_msg_id = None
  /\ xtg'.sends > xtg.sends => ~\E r \in x_posts : r.post_id = XKey

C9_FailedDeliveryCommitted == [][C9_Step]_vars

\* a later cycle meets the post whose delivery failed: it has a record
\* without a confirmation id
C9_Witness ==
  /\ x.pass = "loop" /\ x.pc = "Deduping" /\ XKey = "p1"
  /\ \E r \in x_posts : r.post_id = "p1" /\ r.telegram_msg_id = None

(***************************************************************************)
(* C10 -- an item failure aborts only that item.                           *)
(***************************************************************************)
RssItemPcs ==
  {"Deduping", "Enriching", "Classifying", "Formatting", "Delivering", "Posting",
   "Committing"}
XItemPcs == {"Deduping", "Delivering", "Posting", "Committing"}

RssLeavesEntry ==
  /\ mgr.rss_task = "running" /\ mgr'.rss_task = "running"
  /\ rss.pc \in RssItemPcs
  /\ ~(rss'.pc \in RssItemPcs /\ rss'.i = rss.i /\ rss'.feed = rss.feed
       /\ rss'.pass = rss.pass)

XLeavesPost ==
  /\ mgr.x_task = "running" /\ mgr'.x_task = "running"
  /\ x.pc \in XItemPcs
  /\ ~(x'.pc \in XItemPcs /\ x'.i = x.i)

\* C10: whenever a poller leaves an item, by success, skip or failure at
\* any stage, it goes on with the next item of the same batch; after the
\* last item the feed poller goes on with the next feed of the cycle.
C10_Step ==
  /\ RssLeavesEntry =>
       IF rss.i < Len(rss.entries)
         THEN /\ rss'.pc = "Deduping" /\ rss'.i = rss.i + 1
              /\ rss'.entries = rss.entries /\ rss'.feed = rss.feed
              /\ rss'.pass = rss.pass
       ELSE IF rss.feed < Len(FEEDS)
         THEN rss'.pc = "Fetching" /\ rss'.feed = rss.feed + 1 /\ rss'.pass = rss.pass
       ELSE rss'.pc \in {"Fetching", "Idle"} /\ rss'.pass = "loop"
  /\ XLeavesPost =>
       IF x.i < Len(x.posts)
         THEN x'.pc = "Deduping" /\ x'.i = x.i + 1 /\ x'.posts = x.posts
       ELSE x'.pc = "Idle"

C10_ItemFailureIsLocal == [][C10_Step]_vars

\* the first entry of feed2 raised in entry_key and the first post raised
\* in formatting; both pollers are at the second item of the same batch
C10_Witness ==
  /\ RssFeed = "feed2" /\ rss.i = 2 /\ rss.pc = "Enriching"
  /\ x.i = 2 /\ x.pc = "Delivering" /\ x.posts[1].raises # "none"

(***************************************************************************)
(* C11 -- an item whose processing raises.                                 *)
(***************************************************************************)
\* the step in which the processing of the current item raises
RssEntryRaises ==
  /\ mgr.rss_task = "running" /\ rss.pc = "Formatting"
  /\ RssEntry.raises = "format_message" /\ rss' # rss

XPostRaises ==
  /\ mgr.x_task = "running" /\ x.pc = "Deduping"
  /\ XPost.raises = "format_x_post_message" /\ x' # x

\* C11: when the processing of an item raises, in either poller, the item
\* is skipped and has a dedup record afterwards.
C11_Step ==
  /\ RssEntryRaises => Key(RssFeed, RssKey) \in StoreKeys'
  /\ XPostRaises => Key("x", XKey) \in StoreKeys'

C11_RaisingItemRecorded == [][C11_Step]_vars

(***************************************************************************)
(* C12 -- a seen item is skipped entirely.                                 *)
(***************************************************************************)
RssBeyondDedup ==
  rss.pc \in {"Enriching", "Classifying", "Formatting", "Delivering", "Posting",
              "Committing"}
XBeyondDedup == x.pc \in {"Delivering", "Posting", "Committing"}

\* no stage after Deduping ever works on an item that has a record
C12_NoStageOnSeen ==
  /\ RssBeyondDedup => Key(RssFeed, RssKey) \notin StoreKeys
  /\ XBeyondDedup => Key("x", XKey) \notin StoreKeys

\* the step a poller takes from Deduping on an item that has a record goes
\* to the next item and writes nothing and sends nothing
C12_Step ==
  /\ (rss.pc = "Deduping" /\ Key(RssFeed, RssKey) \in StoreKeys /\ rss' # rss) =>
       rss' = RssNextEntry(rss) /\ seen' = seen /\ tg' = tg
  /\ (x.pc = "Deduping" /\ Key("x", XKey) \in StoreKeys /\ x' # x) =>
       x' = XNextPost(x) /\ x_posts' = x_posts /\ xtg' = xtg

\* C12: for an item whose (source, key) has a record, the poller does no
\* enrichment, classification, scoring, delivery or dedup write in that
\* cycle: it goes from Deduping straight to the next item.
C12_SeenItemSkipped == []C12_NoStageOnSeen /\ [][C12_Step]_vars

\* a later cycle of the feed poller has skipped the two recorded entries of
\* feed1 and the X poller has skipped its recorded post and ended the cycle
C12_Witness ==
  /\ rss.pass = "loop" /\ RssFeed = "feed1" /\ rss.pc = "Deduping" /\ rss.i = 3
  /\ {Key("feed1", "a"), Key("feed1", "b")} \subseteq StoreKeys
  /\ x.pass = "loop" /\ x.pc = "Idle" /\ Key("x", "p1") \in StoreKeys
  /\ \E r \in x_posts : r.post_id = "p1" /\ r.first_seen_ts = Now0

(***************************************************************************)
(* The supervisor with both sources, the feeds being unreachable: the     *)
(* feed poller cycles through failed fetches, the X poller runs in full.   *)
(* The event loop runs the health monitor's sweep every 60 s: weak         *)
(* fairness on health_monitor.                                             *)
(***************************************************************************)
RssFetchFails == RssFetch /\ rss'.entries = <<>>

NextSupervisor ==
  \/ Start
  \/ health_monitor
  \/ RssStart \/ RssFetchFails \/ RssWake \/ RssCrash
  \/ XStart \/ XFetch \/ XDedup \/ XSend \/ XResponse \/ XCommit \/ XWake \/ XCrash
  \/ XInterrupt
  \/ shutdown \/ MonitorExit \/ StartCancel \/ RssCancelled \/ XCancelled \/ StartReturn

SpecSupervisor == Init /\ [][NextSupervisor]_vars /\ WF_vars(health_monitor)

(***************************************************************************)
(* C13 -- a crashed task is restarted.                                     *)
(***************************************************************************)
RssCrashed == mgr.rss_enabled /\ mgr.rss_task = "failed" /\ ~mgr.shutdown_event
XCrashed == mgr.x_enabled /\ mgr.x_task = "failed" /\ ~mgr.shutdown_event

\* a step that is a sweep of the monitor which restarts something
Sweeps == mgr'.rss_replaced # mgr.rss_replaced \/ mgr'.x_replaced # mgr.x_replaced

\* the sweep leaves no enabled task crashed: each is replaced by a task that
\* starts run_loop from its beginning
C13_Step ==
  Sweeps =>
    /\ (mgr.rss_enabled /\ mgr.rss_task = "failed") =>
         mgr'.rss_task = "running" /\ rss' = RssFresh
    /\ (mgr.x_enabled /\ mgr.x_task = "failed") =>
         mgr'.x_task = "running" /\ x' = XFresh

\* C13: a sweep replaces every enabled task that ended with an error by a
\* fresh task, and while shutdown is not signalled every crashed enabled
\* task is eventually replaced.
C13_CrashedTaskRestarted ==
  /\ [][C13_Step]_vars
  /\ RssCrashed ~> (mgr.rss_task = "running" \/ mgr.shutdown_event)
  /\ XCrashed ~> (mgr.x_task = "running" \/ mgr.shutdown_event)

\* the feed task crashed, was replaced, and the replacement has started
C13_Witness ==
  /\ mgr.rss_replaced = <<"failed">> /\ mgr.rss_task = "running"
  /\ rss.pc = "Fetching" /\ ~mgr.shutdown_event

(***************************************************************************)
(* C14 -- a task that ended without an error is left alone.                *)
(***************************************************************************)
C14_Step ==
  /\ mgr.rss_task = "finished" =>
       mgr'.rss_task = "finished" /\ mgr'.rss_replaced = mgr.rss_replaced
  /\ mgr.x_task = "finished" =>
       mgr'.x_task = "finished" /\ mgr'.x_replaced = mgr.x_replaced

\* C14: once a source task has ended without an error, no step, and no
\* sweep in particular, changes its handle: it stays the finished task.
C14_FinishedNeverRescheduled == [][C14_Step]_vars

\* a sweep has run, and restarted the other source, while the X task was
\* finished
C14_Witness ==
  /\ hist.swept_finished /\ mgr.x_task = "finished" /\ mgr.x_replaced = <<>>
  /\ mgr.rss_replaced # <<>>

(***************************************************************************)
(* C15 -- shutdown stops everything before start() returns.                *)
(***************************************************************************)
\* C15: when start() has returned, no source task, restarted ones
\* included, and no health monitor is still live.
C15_AllStoppedAtReturn ==
  mgr.phase = "returned" =>
    /\ ~Live(mgr.rss_task) /\ ~Live(mgr.x_task) /\ ~Live(mgr.monitor_task)

(***************************************************************************)
(* C16 -- cancellation and calls in flight.                                *)
(***************************************************************************)
\* C16: a poller task is never ended by cancellation while a send request
\* of it is awaiting its answer or its retry.
C16_NotCancelledInFlight ==
  /\ mgr.rss_task = "cancelled" => rss.pc \notin {"Delivering", "Posting"}
  /\ mgr.x_task = "cancelled" => x.pc \notin {"Delivering", "Posting"}

(***************************************************************************)
(* C17 -- one live task per source.                                        *)
(***************************************************************************)
\* the tasks created for a source that are not done
LiveTasks(task, replaced) ==
  Cardinality({i \in 1..Len(replaced) : Live(replaced[i])})
    + (IF Live(task) THEN 1 ELSE 0)

\* C17: at every moment at most one task of each source is live.
C17_OneLiveTaskPerSource ==
  /\ LiveTasks(mgr.rss_task, mgr.rss_replaced) <= 1
  /\ LiveTasks(mgr.x_task, mgr.x_replaced) <= 1

\* after a restart of the feed source: one live task each
C17_Witness ==
  /\ mgr.rss_replaced # <<>> /\ rss.pc = "Idle"
  /\ LiveTasks(mgr.rss_task, mgr.rss_replaced) = 1
  /\ LiveTasks(mgr.x_task, mgr.x_replaced) = 1

(***************************************************************************)
(* C18 -- a crash is contained.                                            *)
(***************************************************************************)
C18_Step ==
  /\ (mgr.rss_task = "running" /\ mgr'.rss_task = "failed") =>
       /\ mgr'.x_task = mgr.x_task /\ x' = x
       /\ mgr'.monitor_task = mgr.monitor_task /\ mgr'.phase = mgr.phase
  /\ (mgr.x_task = "running" /\ mgr'.x_task = "failed") =>
       /\ mgr'.rss_task = mgr.rss_task /\ rss' = rss
       /\ mgr'.monitor_task = mgr.monitor_task /\ mgr'.phase = mgr.phase

\* C18: the step in which a source task crashes changes neither the other
\* source's task, nor the health monitor, nor the wait of start(); and
\* start() never ends by raising.
C18_CrashContained == [](mgr.phase # "raised") /\ [][C18_Step]_vars

\* start() returned normally from a gather over a crashed feed task
C18_Witness ==
  /\ mgr.phase = "returned" /\ mgr.rss_task = "failed" /\ mgr.rss_replaced = <<>>
  /\ mgr.x_task = "cancelled"

(***************************************************************************)
(* The filter on its own: matches_filters applied to every combination of  *)
(* hit counts and priority match, under both policies.                     *)
(***************************************************************************)
\* the published string of an entry: missing, empty, not a date, or a date
DtNone == [kind |-> "none", ts |-> 0]
DtEmpty == [kind |-> "empty", ts |-> 0]
DtGarbage == [kind |-> "garbage", ts |-> 0]
DtDate(ts) == [kind |-> "date", ts |-> ts]

\* to_unix_ts: None for no string and for one dateutil cannot parse
to_unix_ts(dt_str) == IF dt_str.kind = "date" THEN Some(dt_str.ts) ELSE None

\* an entry with its published string, the hits of its page and the score
\* sentiment_ensemble gives its text (in hundredths)
ScoredEntry(id, dt_str, macro_hits, crypto_hits, hyper, body_macro_hits, score) ==
  [id |-> id, dt_str |-> dt_str, published |-> to_unix_ts(dt_str),
   macro_hits |-> macro_hits, crypto_hits |-> crypto_hits, hyper |-> hyper,
   body_macro_hits |-> body_macro_hits, score |-> score, raises |-> "none"]

EntryPlain    == ScoredEntry("g", DtGarbage, 0, 0, FALSE, 0, 90)
EntryBullish  == ScoredEntry("h", DtNone, 1, 0, FALSE, 0, 90)
EntryLukewarm == ScoredEntry("i", DtEmpty, 0, 1, FALSE, 0, 79)
EntryBearish  == ScoredEntry("j", DtDate(Now0 - DAY), 0, 1, FALSE, 0, 20)
EntryBodyOnly == ScoredEntry("k", DtDate(Now0), 0, 0, FALSE, 1, 80)
EntryHyper    == ScoredEntry("l", DtGarbage, 0, 0, TRUE, 0, 50)
EntryTepid    == ScoredEntry("m", DtNone, 1, 0, FALSE, 0, 21)
EntryStrong   == ScoredEntry("n", DtEmpty, 2, 0, FALSE, 0, 50)

\* the batches of a feed whose entries differ in date string, hits and score
UpstreamScored(feed) ==
  IF feed = "feed1" THEN {<<EntryPlain, EntryBullish, EntryLukewarm, EntryStrong>>}
  ELSE {<<EntryBearish, EntryBodyOnly, EntryHyper, EntryTepid>>}

FilterEntries ==
  {Entry("t", None, m, c, h, "none") : m \in 0..MaxHits, c \in 0..MaxHits, h \in BOOLEAN}

InitFilter ==
  /\ now = Now0
  /\ MAX_AGE_DAYS = 2
  /\ POST_ONLY_ON_STRONG_MATCH \in BOOLEAN
  /\ seen = {}
  /\ x_posts = {}
  /\ db_error = FALSE
  /\ \E e \in FilterEntries, body \in BOOLEAN :
       rss = [RssFresh EXCEPT !.pc = "Classifying", !.entries = <<e>>, !.i = 1,
                              !.body = body]
  /\ tg = TgIdle
  /\ x = XFresh
  /\ xtg = XTgIdle
  /\ mgr = [started |-> FALSE, rss_enabled |-> TRUE, x_enabled |-> TRUE,
            rss_task |-> "none", x_task |-> "none", monitor_task |-> "none",
            rss_replaced |-> <<>>, x_replaced |-> <<>>,
            shutdown_event |-> FALSE, phase |-> "init"]
  /\ hist = HistInit
  /\ bot_log_handler = BotLogHandlerInit
  /\ fmt = FmtIdle
  /\ hf = HfFresh

\* the hit counts of title + summary + body, as process_feed passes the text
TextMacroHits == RssEntry.macro_hits + (IF rss.body THEN RssEntry.body_macro_hits ELSE 0)
TextCryptoHits == RssEntry.crypto_hits

\* include, macro, crypto = matches_filters(title, summary, body)
FilterApply ==
  /\ rss.pc = "Classifying" /\ rss.cls = None
  /\ rss' = [rss EXCEPT !.cls = Some(matches_filters(TextMacroHits, TextCryptoHits,
                                                     RssEntry.hyper))]
  /\ UNCHANGED <<bot_log_handler, fmt, hf, now, MAX_AGE_DAYS, POST_ONLY_ON_STRONG_MATCH, seen, x_posts, db_error,
                 tg, x, xtg, mgr, hist>>

NextFilter == FilterApply

SpecFilter == InitFilter /\ [][NextFilter]_vars

Filtered == rss.cls # None

(***************************************************************************)
(* C19 -- the priority family short-circuits.                              *)
(***************************************************************************)
\* C19: for every text that matches the priority family, under both
\* policies and whatever the hit counts of the two topic families, zero
\* included, the filter returns include, macro and crypto all true.
C19_PriorityShortCircuit ==
  (Filtered /\ RssEntry.hyper) =>
    Val(rss.cls) = [include |-> TRUE, macro |-> TRUE, crypto |-> TRUE]

\* a priority text without a hit in either family, under the strict policy
C19_Witness ==
  /\ Filtered /\ RssEntry.hyper /\ POST_ONLY_ON_STRONG_MATCH
  /\ TextMacroHits = 0 /\ TextCryptoHits = 0

(***************************************************************************)
(* C20 -- the strict policy.                                               *)
(***************************************************************************)
\* C20: under the strict policy include is true exactly when the priority
\* family matches, or both topic families have a hit, or one of them has
\* two or more hits.
C20_StrictPolicy ==
  (Filtered /\ POST_ONLY_ON_STRONG_MATCH) =>
    (Val(rss.cls).include <=>
       \/ RssEntry.hyper
       \/ TextMacroHits >= 1 /\ TextCryptoHits >= 1
       \/ TextMacroHits >= 2
       \/ TextCryptoHits >= 2)

\* two hits of one family alone, no priority match: included
C20_Witness ==
  /\ Filtered /\ POST_ONLY_ON_STRONG_MATCH /\ ~RssEntry.hyper
  /\ TextMacroHits = 0 /\ TextCryptoHits = 2 /\ Val(rss.cls).include

(***************************************************************************)
(* C21 -- the permissive policy.                                           *)
(***************************************************************************)
\* C21: under the permissive policy, for every combination of hit counts
\* and priority match, include is true exactly when the macro family has a
\* hit, or the crypto family has a hit, or the priority family matches.
C21_PermissivePolicy ==
  (Filtered /\ ~POST_ONLY_ON_STRONG_MATCH) =>
    (Val(rss.cls).include <=>
       \/ TextMacroHits >= 1
       \/ TextCryptoHits >= 1
       \/ RssEntry.hyper)

\* a single crypto hit alone, no priority match: included
C21_Witness ==
  /\ Filtered /\ ~POST_ONLY_ON_STRONG_MATCH /\ ~RssEntry.hyper
  /\ TextMacroHits = 0 /\ TextCryptoHits = 1 /\ Val(rss.cls).include

(***************************************************************************)
(* The scorer on its own: sentiment_ensemble called again and again in one *)
(* process, on every text and with every behaviour of the libraries.       *)
(***************************************************************************)
Labels == {"pos", "neu", "neg"}

\* classifier confidences: zero, the tiniest ones, a half and one
Confs == (0..MaxTinyConf) \cup {500000, 1000000}

\* VADER compounds, around the label thresholds
VaderCompounds == {-100, 0, 30}

\* the empty text, texts around the 16-character threshold (one of them
\* only after strip()), a text longer than the classifiers read, and texts
\* with every combination of cues
Texts ==
  {[len |-> l, pad |-> 0, hawkish |-> FALSE, dovish |-> FALSE] :
     l \in {0, SHORT_TEXT - 1, HF_TEXT_LIMIT + 1}}
  \cup {[len |-> SHORT_TEXT, pad |-> 1, hawkish |-> FALSE, dovish |-> FALSE]}
  \cup {[len |-> SHORT_TEXT, pad |-> 0, hawkish |-> hk, dovish |-> dv] :
          hk \in BOOLEAN, dv \in BOOLEAN}

\* what the libraries do during one call: a failing load or a failing
\* classifier, or two answers
Envs ==
  {[load |-> ld, invoke |-> "ok", lf |-> "neu", sf |-> 0, lr |-> "neu", sr |-> 0,
    vader |-> v] : ld \in {"import_fails", "finbert_fails", "rob_fails"},
                   v \in VaderCompounds}
  \cup {[load |-> "ok", invoke |-> iv, lf |-> "neu", sf |-> 0, lr |-> "neu", sr |-> 0,
         vader |-> v] : iv \in {"finbert_raises", "rob_raises"}, v \in VaderCompounds}
  \cup {[load |-> "ok", invoke |-> "ok", lf |-> lf, sf |-> sf, lr |-> lr, sr |-> sr,
         vader |-> 0] : lf \in Labels, sf \in Confs, lr \in Labels, sr \in Confs}

\* sent = sentiment_ensemble(text)
Score ==
  /\ \E text \in Texts, env \in Envs : hf' = sentiment_ensemble(text, hf, env)
  /\ UNCHANGED <<bot_log_handler, fmt, now, MAX_AGE_DAYS, POST_ONLY_ON_STRONG_MATCH, seen, x_posts, db_error,
                 rss, tg, x, xtg, mgr, hist>>

NextScorer == Score

SpecScorer == Init /\ [][NextScorer]_vars

Scored == hf.last # None
LastCall == Val(hf.last)
LexiconOnly(call) ==
  /\ call.result.finbert = None /\ call.result.roberta = None
  /\ call.result.vader # None

(***************************************************************************)
(* C22 -- short texts never touch the classifiers.                         *)
(***************************************************************************)
C22_Step ==
  (hf' # hf /\ Val(hf'.last).text.len < SHORT_TEXT) =>
     /\ LexiconOnly(Val(hf'.last))
     /\ ~Val(hf'.last).loads /\ Val(hf'.last).invoked = {}
     /\ hf'.finbert = hf.finbert /\ hf'.rob = hf.rob

\* C22: for every text of length below 16 the scorer returns a lexicon-only
\* result and neither initialises nor invokes the two classifiers, whether
\* they are uninitialised, initialised or failed.
C22_ShortTextLexiconOnly == [][C22_Step]_vars

\* a short text scored while both classifiers are initialised
C22_Witness ==
  /\ Scored /\ LastCall.text.len = SHORT_TEXT - 1 /\ hf.finbert /\ hf.rob
  /\ LexiconOnly(LastCall) /\ LastCall.invoked = {}

(***************************************************************************)
(* C23 -- the ensemble compound and score stay in range.                   *)
(***************************************************************************)
\* C23: on the ensemble path, for every pair of mapped labels and
\* confidences in [0,1], both zero included, and every combination of cues,
\* the compound after the nudges is within [-1,1] and the score within [0,1].
C23_EnsembleInRange ==
  (Scored /\ LastCall.result.finbert # None) =>
     /\ LastCall.result.compound \in -100..100
     /\ LastCall.result.score \in 0..200

\* both confidences zero and only the dovish cue: the compound is the nudge
C23_Witness ==
  /\ Scored /\ LastCall.result.finbert # None
  /\ Val(LastCall.result.finbert).score = 0 /\ Val(LastCall.result.roberta).score = 0
  /\ LastCall.text.dovish /\ ~LastCall.text.hawkish
  /\ LastCall.result.compound = 5

(***************************************************************************)
(* C24 -- a failing classifier falls back to the lexicon.                  *)
(***************************************************************************)
\* C24: if initialising or invoking the classifiers fails on a text of
\* length >= 16, the scorer does not raise: it returns the lexicon result
\* computed over the full text, with no per-model breakdown.
C24_FailureFallsBack ==
  (Scored /\ LastCall.error # None) =>
     /\ ~LastCall.raised
     /\ LexiconOnly(LastCall)
     /\ LastCall.lexicon_len = Some(LastCall.text.len - LastCall.text.pad)

\* the second classifier raised on a text longer than the classifiers read
C24_Witness ==
  /\ Scored /\ LastCall.error = Some("invoke") /\ LastCall.invoked = {"finbert", "roberta"}
  /\ LastCall.text.len = HF_TEXT_LIMIT + 1
  /\ LastCall.lexicon_len = Some(HF_TEXT_LIMIT + 1)

(***************************************************************************)
(* C25 -- a failed initialisation is final.                                *)
(***************************************************************************)
C25_Step == hf.load_failed => ~Val(hf'.last).loads

\* C25: once initialisation of the classifiers has failed, no later score
\* call attempts initialisation again.
C25_NoSecondInitialisation == [][C25_Step]_vars

(***************************************************************************)
(* The formatters on their own: one item, one call.  One field of the item *)
(* holds any string of the alphabet, or a string around the summary        *)
(* budget; the other fields hold an ordinary character.                    *)
(***************************************************************************)
Chars == {"a", " ", "<", ">", "&", "\""}

RECURSIVE StringsOf(_)
StringsOf(n) ==
  IF n = 0 THEN {<<>>}
  ELSE LET shorter == StringsOf(n - 1)
       IN shorter \cup {Append(str, c) : str \in {t \in shorter : Len(t) = n - 1},
                                          c \in Chars}

FieldStrings ==
  (StringsOf(MaxFieldLen) \ {<<>>})
  \cup {Rep("a", SUMMARY_BUDGET), Rep("a", SUMMARY_BUDGET + 1),
        Rep("a", SUMMARY_BUDGET - 1) \o <<" ", "a">>}

FeedItem ==
  [title |-> <<"a">>, feed_title |-> <<"a">>, summary |-> <<"a">>, body |-> <<>>,
   url |-> [host |-> <<"a">>, path |-> <<"a">>]]

FeedItems ==
  {[FeedItem EXCEPT ![f] = v] : f \in {"title", "feed_title", "summary", "body"},
                                v \in FieldStrings}
  \cup {[FeedItem EXCEPT !.url.host = v] : v \in FieldStrings}
  \cup {[FeedItem EXCEPT !.url.path = v] : v \in FieldStrings}

XItem ==
  [username |-> <<"a">>, content |-> <<"a">>, replies |-> <<>>, post_id |-> <<"a">>]

XItems ==
  {[XItem EXCEPT ![f] = v] : f \in {"username", "content", "replies", "post_id"},
                             v \in FieldStrings}

InitRender ==
  /\ now = Now0
  /\ MAX_AGE_DAYS = 2
  /\ POST_ONLY_ON_STRONG_MATCH = FALSE
  /\ seen = {}
  /\ x_posts = {}
  /\ db_error = FALSE
  /\ rss = RssFresh
  /\ tg = TgIdle
  /\ x = XFresh
  /\ xtg = XTgIdle
  /\ mgr = [started |-> FALSE, rss_enabled |-> TRUE, x_enabled |-> TRUE,
            rss_task |-> "none", x_task |-> "none", monitor_task |-> "none",
            rss_replaced |-> <<>>, x_replaced |-> <<>>,
            shutdown_event |-> FALSE, phase |-> "init"]
  /\ hist = HistInit
  /\ hf = HfFresh
  /\ bot_log_handler = BotLogHandlerInit
  /\ \/ \E item \in FeedItems : fmt = [kind |-> "feed", item |-> item, out |-> None]
     \/ \E item \in XItems : fmt = [kind |-> "x", item |-> item, out |-> None]

\* msg = format_message(..., summary=first_nonempty(body, summary, title), ...)
FormatFeed ==
  /\ fmt.kind = "feed" /\ fmt.out = None
  /\ fmt' = [fmt EXCEPT !.out =
               Some(format_message(fmt.item.feed_title, fmt.item.title, fmt.item.url,
                                   first_nonempty(<<fmt.item.body, fmt.item.summary,
                                                    fmt.item.title>>)))]
  /\ UNCHANGED <<now, MAX_AGE_DAYS, POST_ONLY_ON_STRONG_MATCH, seen, x_posts, db_error,
                 rss, tg, x, xtg, mgr, hist, hf, bot_log_handler>>

\* message = format_x_post_message(post)
FormatX ==
  /\ fmt.kind = "x" /\ fmt.out = None
  /\ fmt' = [fmt EXCEPT !.out = Some(format_x_post_message(fmt.item))]
  /\ UNCHANGED <<now, MAX_AGE_DAYS, POST_ONLY_ON_STRONG_MATCH, seen, x_posts, db_error,
                 rss, tg, x, xtg, mgr, hist, hf, bot_log_handler>>

NextRender == FormatFeed \/ FormatX

SpecRender == InitRender /\ [][NextRender]_vars

Rendered == fmt.out # None
Message == Val(fmt.out)

(***************************************************************************)
(* C26 -- every item field is escaped.                                     *)
(***************************************************************************)
\* C26: in every rendered message, no piece that comes from an item field
\* holds a character that opens a tag, and no such piece inside an
\* attribute value holds the character that ends the value.
C26_AllFieldsEscaped ==
  Rendered =>
    \A i \in DOMAIN Message :
      Message[i].src # "markup" =>
        \A j \in DOMAIN Message[i].s :
          /\ Message[i].s[j] # "<"
          /\ Message[i].ctx = "attr" => Message[i].s[j] # "\""

(***************************************************************************)
(* C27 -- the body / summary / content field is cut to a budget.           *)
(***************************************************************************)
\* the field the formatter renders as body text, and the piece it becomes
BodyField ==
  IF fmt.kind = "feed"
    THEN first_nonempty(<<fmt.item.body, fmt.item.summary, fmt.item.title>>)
  ELSE fmt.item.content
BodyPiece ==
  LET i == CHOOSE k \in DOMAIN Message : Message[k].src \in {"summary", "content"}
  IN Message[i].s

\* C27: in every rendered message the body / summary / content field is
\* rendered unchanged when it is within the budget, and otherwise cut to at
\* most the budget and followed by the ellipsis, in the feed formatter and
\* in the social formatter.
C27_FieldWithinBudget ==
  (Rendered /\ BodyField # <<>>) =>
    IF Len(BodyField) <= SUMMARY_BUDGET
      THEN BodyPiece = html_escape(BodyField)
    ELSE /\ Len(BodyPiece) <= SUMMARY_BUDGET + 1
         /\ BodyPiece[Len(BodyPiece)] = "..."
         /\ SubSeq(BodyPiece, 1, Len(BodyPiece) - 1)
              = SubSeq(html_escape(BodyField), 1, Len(BodyPiece) - 1)

(***************************************************************************)
(* The log handler on its own: any sequence of records of the three        *)
(* loggers, at any level.                                                  *)
(***************************************************************************)
\* logger.info / logger.warning / logger.error on one of the three loggers
Emit ==
  /\ bot_log_handler.emitted < MaxRecords
  /\ \E name \in Loggers, levelno \in {LOGGING_INFO, LOGGING_WARNING, LOGGING_ERROR} :
       LET record == [name |-> name, levelno |-> levelno,
                      message |-> bot_log_handler.emitted + 1]
           logged == [bot_log_handler EXCEPT
                        !.emitted = @ + 1,
                        !.rss_logged = IF name = "macro-crypto-bot"
                                          /\ levelno >= LOGGING_ERROR
                                       THEN Append(@, record.message) ELSE @,
                        !.x_logged = IF name = "wildmeta-x-bot"
                                        /\ levelno >= LOGGING_ERROR
                                     THEN Append(@, record.message) ELSE @]
       IN bot_log_handler' = emit(logged, record)
  /\ UNCHANGED <<now, MAX_AGE_DAYS, POST_ONLY_ON_STRONG_MATCH, seen, x_posts, db_error,
                 rss, tg, x, xtg, mgr, hist, hf, fmt>>

NextLog == Emit

SpecLog == Init /\ [][NextLog]_vars

(***************************************************************************)
(* C28 -- the recent-error lists.                                          *)
(***************************************************************************)
\* C28: after any sequence of log records, each poller's recent-error list
\* holds at most 10 entries, they are the most recent error-level records
\* of that poller's logger in arrival order, and the snapshot counts them;
\* no record of another logger is in the list.
C28_RecentErrors ==
  /\ bot_log_handler.rss_errors = LastOf(bot_log_handler.rss_logged, ERRORS_KEPT)
  /\ bot_log_handler.x_errors = LastOf(bot_log_handler.x_logged, ERRORS_KEPT)
  /\ Len(bot_log_handler.rss_errors) <= ERRORS_KEPT
  /\ Len(bot_log_handler.x_errors) <= ERRORS_KEPT
  /\ get_status(bot_log_handler).rss_bot.recent_errors <= ERRORS_KEPT
  /\ get_status(bot_log_handler).x_bot.recent_errors <= ERRORS_KEPT

\* the eleventh error of the feed poller arrived: the first one was dropped
C28_Witness ==
  /\ Len(bot_log_handler.rss_logged) = ERRORS_KEPT + 1
  /\ Len(bot_log_handler.rss_errors) = ERRORS_KEPT
  /\ bot_log_handler.rss_errors[1] = bot_log_handler.rss_logged[2]

(***************************************************************************)
(* C29 -- a failed fetch ends the source's cycle, and only that.           *)
(***************************************************************************)
\* a step in which the fetch of the current feed / of the timeline failed:
\* the poller leaves the fetch with nothing to process
RssFetchFailed ==
  /\ rss.pc = "Fetching" /\ rss' # rss /\ mgr' = mgr
  /\ rss'.entries = <<>>
XFetchFailed ==
  /\ x.pc = "Fetching" /\ x' # x /\ mgr' = mgr
  /\ x'.posts = <<>>

C29_Step ==
  /\ RssFetchFailed =>
       /\ seen' = seen /\ tg' = tg /\ hist' = hist
       /\ x' = x /\ x_posts' = x_posts /\ xtg' = xtg
       /\ IF rss.feed < Len(FEEDS)
            THEN rss'.pc = "Fetching" /\ rss'.feed = rss.feed + 1 /\ rss'.pass = rss.pass
          ELSE \/ rss'.pc = "Idle"
               \/ rss.pass = "initial" /\ rss'.pass = "loop"
                    /\ rss'.pc = "Fetching" /\ rss'.feed = 1
  /\ XFetchFailed =>
       /\ x_posts' = x_posts /\ xtg' = xtg /\ hist' = hist
       /\ rss' = rss /\ seen' = seen /\ tg' = tg
       /\ x'.pc = "Idle"

StartOne == Start /\ ~(mgr'.rss_enabled /\ mgr'.x_enabled)

NextRateLimit ==
  \/ StartOne
  \/ RssStart \/ RssFetch \/ RssDedup \/ RssEnrich \/ RssClassify \/ RssFormat
  \/ RssPost \/ RssResponseAny \/ RssCommit \/ RssWake
  \/ XStart \/ XFetch \/ XDedup \/ XSend \/ XResponseAny \/ XCommit \/ XWake

SpecRateLimit == Init /\ [][NextRateLimit]_vars

(***************************************************************************)
(* C30 -- the sleep on a rate-limit answer.                                *)
(***************************************************************************)
\* the sleep the answer asks for: its retry_after when it has one that can
\* be read, the default otherwise
C30_Suggested(last, default) ==
  IF last[3] = "rate_limited" /\ last[1] # None THEN Val(last[1]) ELSE default

\* C30: whenever a deliver call is about to send again after a rate-limit
\* answer, it is in a sleep of the duration the answer suggests, or of the
\* default (3 s feed, 5 s X) when the answer suggests none or one that
\* cannot be read.
C30_RateLimitSleeps ==
  /\ (rss.pc = "Delivering" /\ tg.signals > 0) =>
       /\ tg.last # <<>>
       /\ tg.last[2] = C30_Suggested(tg.last, RSS_DEFAULT_RETRY_AFTER)
  /\ (x.pc = "Delivering" /\ xtg.last # <<>>) =>
       xtg.last[2] = C30_Suggested(xtg.last, X_DEFAULT_RETRY_AFTER)

(***************************************************************************)
(* C31 -- enrichment is best effort.                                       *)
(***************************************************************************)
\* the stages after classification, reached with an empty body
RssBodyEmpty ==
  /\ rss.pc \in {"Formatting", "Delivering", "Posting", "Committing"}
  /\ ~rss.body

C31_Step ==
  (rss.pc = "Enriching" /\ rss' # rss /\ mgr' = mgr) =>
     /\ rss'.pc = "Classifying"
     /\ rss'.feed = rss.feed /\ rss'.entries = rss.entries /\ rss'.i = rss.i
     /\ seen' = seen

\* C31: whatever the page fetch and the extraction tiers do, the item goes
\* on from enrichment to classification; when enrichment yields nothing the
\* body is empty and classification, formatting and delivery use the hits
\* of title and summary only.
C31_EnrichmentNeverAborts ==
  /\ [][C31_Step]_vars
  /\ [](RssBodyEmpty =>
          Val(rss.cls) = RssClassifyResult(RssEntry, FALSE))

\* an item whose enrichment failed has been delivered
C31_Witness ==
  /\ RssBodyEmpty /\ rss.pc = "Committing" /\ tg.result = "returned"
  /\ RssKey = "a"

(***************************************************************************)
(* C32 -- the items of a cycle are processed one at a time, in order.      *)
(***************************************************************************)
\* the stages at which the work on the current item can be over: it was
\* skipped, it failed, or it was delivered and committed
RssItemOver == rss.pc \in {"Deduping", "Classifying", "Formatting", "Posting", "Committing"}
XItemOver == x.pc \in {"Deduping", "Posting", "Committing"}

C32_RssStep ==
  /\ (rss.entries # <<>> /\ rss'.entries = rss.entries /\ rss'.i # rss.i) =>
        /\ rss'.i = rss.i + 1
        /\ rss'.pc = "Deduping"
        /\ RssItemOver
  /\ tg'.sends > tg.sends =>
        /\ rss.pc = "Delivering" /\ rss'.pc = "Posting"
        /\ rss'.entries = rss.entries /\ rss'.i = rss.i

C32_XStep ==
  /\ (x.posts # <<>> /\ x'.posts = x.posts /\ x'.i # x.i) =>
        /\ x'.i = x.i + 1
        /\ x'.pc = "Deduping"
        /\ XItemOver
  /\ xtg'.sends > xtg.sends =>
        /\ x.pc = "Delivering" /\ x'.pc = "Posting"
        /\ x'.posts = x.posts /\ x'.i = x.i

\* C32: while a poller works on one fetched batch, its cursor only moves
\* from an item to the next one, and only when the work on the item is over
\* (skipped, failed, or delivered and committed); every send request is for
\* the item under the cursor, so the requests of a cycle follow the fetched
\* order.
C32_InOrder == [][C32_RssStep /\ C32_XStep]_vars

\* both pollers are sending the second item they deliver in a cycle
C32_Witness ==
  /\ rss.feed = 2 /\ rss.i = 3 /\ rss.pc = "Posting"
  /\ Key(FEEDS[2], "c") \in StoreKeys
  /\ x.i = 2 /\ x.pc = "Posting"

(***************************************************************************)
(* C33 -- what record-seen does to a record that exists.                   *)
(***************************************************************************)
\* mark_seen of the feed store, for any arguments, on a key with a record
C33_FeedKeeps ==
  \A feed \in {"feed1"}, key \in {"a", "b"}, published_ts \in {None, Some(0)} :
    rss_seen_before(seen, feed, key) =>
      LET w == rss_mark_seen(seen, feed, key, published_ts)
      IN ~w.error /\ w.table = seen

\* mark_seen of the X store, for any arguments, on a post with a record
C33_SocialReplaces ==
  \A post_id \in {"p1", "p2"}, posted_at \in {None, Some(Now0)},
     telegram_msg_id \in {None, Some(1)} :
    x_seen_before(x_posts, post_id) =>
      LET w == x_mark_seen(x_posts, post_id, posted_at, telegram_msg_id)
      IN /\ ~w.error
         /\ {r \in w.table : r.post_id = post_id} =
              {[post_id |-> post_id, posted_at |-> posted_at, first_seen_ts |-> now,
                telegram_msg_id |-> telegram_msg_id]}
         /\ {r \in w.table : r.post_id # post_id} =
              {r \in x_posts : r.post_id # post_id}

\* over the calls made: no feed record ever changes or goes, and an X
\* record that appears carries the time of the call that wrote it
C33_Step ==
  /\ seen \subseteq seen'
  /\ \A r \in x_posts' \ x_posts : r.first_seen_ts = now

\* C33: a record-seen call for a (feed, key) that has a record leaves the
\* feed store's record as it is, published and first-seen timestamps
\* included; the same call on the X store replaces the record by the
\* arguments of the call and the time of the call, the message id and the
\* first-seen timestamp included.
C33_IgnoreVersusReplace ==
  /\ [](C33_FeedKeeps /\ C33_SocialReplaces)
  /\ [][C33_Step]_vars

\* both stores were written a second time, a day after the first write: the
\* feed record is the old one, the X record is of today and lost its
\* message id
C33_Witness ==
  /\ now > Now0
  /\ Key("feed1", "a") \in hist.remarked
  /\ \E r \in seen : r.entry_key = "a" /\ r.first_seen_ts = Now0 /\ r.published_ts = None
  /\ Key("x", "p1") \in hist.remarked
  /\ \E r \in x_posts : r.post_id = "p1" /\ r.first_seen_ts = now
                        /\ r.telegram_msg_id = None

(***************************************************************************)
(* Calls of format_message by a caller that keeps its arguments.           *)
(***************************************************************************)
Tags == {"Macro", "Crypto", "Hyperliquid"}

TagLists ==
  {None} \cup {Some(list) : list \in UNION {[1..n -> Tags] : n \in 0..MaxTags}}

CallArgs ==
  [item : {FeedItem, [FeedItem EXCEPT !.summary = <<"<">>]},
   tags : TagLists, hyper : BOOLEAN]

InitCall ==
  /\ now = Now0
  /\ MAX_AGE_DAYS = 2
  /\ POST_ONLY_ON_STRONG_MATCH = FALSE
  /\ seen = {}
  /\ x_posts = {}
  /\ db_error = FALSE
  /\ rss = RssFresh
  /\ tg = TgIdle
  /\ x = XFresh
  /\ xtg = XTgIdle
  /\ mgr = [started |-> FALSE, rss_enabled |-> TRUE, x_enabled |-> TRUE,
            rss_task |-> "none", x_task |-> "none", monitor_task |-> "none",
            rss_replaced |-> <<>>, x_replaced |-> <<>>,
            shutdown_event |-> FALSE, phase |-> "init"]
  /\ hist = HistInit
  /\ hf = HfFresh
  /\ bot_log_handler = BotLogHandlerInit
  /\ \E args \in CallArgs :
       fmt = [kind |-> "call", item |-> args, args |-> args, out |-> <<>>]

\* the first call, on the arguments the caller built
CallFormat ==
  /\ fmt.kind = "call" /\ fmt.out = <<>>
  /\ LET c == format_message_call(fmt.args)
     IN fmt' = [fmt EXCEPT !.args = c.args, !.out = <<c.text>>]
  /\ UNCHANGED <<now, MAX_AGE_DAYS, POST_ONLY_ON_STRONG_MATCH, seen, x_posts, db_error,
                 rss, tg, x, xtg, mgr, hist, hf, bot_log_handler>>

\* the second call, on the same objects or on equal new ones
CallFormatAgain ==
  /\ fmt.kind = "call" /\ Len(fmt.out) = 1
  /\ \E args \in {fmt.item, fmt.args} :
       LET c == format_message_call(args)
       IN fmt' = [fmt EXCEPT !.args = IF args = fmt.args THEN c.args ELSE @,
                             !.out = Append(@, c.text)]
  /\ UNCHANGED <<now, MAX_AGE_DAYS, POST_ONLY_ON_STRONG_MATCH, seen, x_posts, db_error,
                 rss, tg, x, xtg, mgr, hist, hf, bot_log_handler>>

NextCall == CallFormat \/ CallFormatAgain

SpecCall == InitCall /\ [][NextCall]_vars

(***************************************************************************)
(* C34 -- format_message is pure.                                          *)
(***************************************************************************)
\* the second call returns the text of the first
C34_SameText == Len(fmt.out) = 2 => fmt.out[1] = fmt.out[2]

\* C34: a call of format_message leaves the caller's arguments as they
\* were, the tag list included, and a second call with the same arguments
\* returns the same text.
C34_Pure ==
  /\ fmt.args = fmt.item
  /\ C34_SameText

(***************************************************************************)
(* The feed poller alone, under either policy and several age ceilings,    *)
(* on feeds whose entries differ in date string, hits and score.           *)
(***************************************************************************)
Ceilings == {-1, 0, 2}

InitFeed ==
  /\ now = Now0
  /\ MAX_AGE_DAYS \in Ceilings
  /\ POST_ONLY_ON_STRONG_MATCH \in BOOLEAN
  /\ seen = {}
  /\ x_posts = {}
  /\ db_error = FALSE
  /\ rss = RssFresh
  /\ tg = TgIdle
  /\ x = XFresh
  /\ xtg = XTgIdle
  /\ mgr = [started |-> FALSE, rss_enabled |-> TRUE, x_enabled |-> TRUE,
            rss_task |-> "none", x_task |-> "none", monitor_task |-> "none",
            rss_replaced |-> <<>>, x_replaced |-> <<>>,
            shutdown_event |-> FALSE, phase |-> "init"]
  /\ hist = HistInit
  /\ bot_log_handler = BotLogHandlerInit
  /\ fmt = FmtIdle
  /\ hf = HfFresh

StartFeedOnly == Start /\ mgr'.rss_enabled /\ ~mgr'.x_enabled

RssFetchScored == RssFetchFrom([feed \in FeedNames |-> UpstreamScored(feed)])

NextFeed ==
  \/ StartFeedOnly
  \/ RssStart \/ RssFetchScored \/ RssDedup \/ RssEnrich \/ RssClassify \/ RssFormat
  \/ RssPost \/ RssResponse \/ RssCommit \/ RssWake

SpecFeed == InitFeed /\ [][NextFeed]_vars

\* the stages an item goes through between the dedup test and its record
RssInWork ==
  rss.pc \in {"Enriching", "Classifying", "Formatting", "Delivering", "Posting",
              "Committing"}

RssRecorded == rss_seen_before(seen, RssFeed, RssKey)

(***************************************************************************)
(* C35 -- a rejected item is recorded and not looked at again.             *)
(***************************************************************************)
C35_Step ==
  /\ (rss.pc = "Classifying" /\ rss' # rss
      /\ ~RssClassifyResult(RssEntry, rss.body).include) =>
        /\ rss_seen_before(seen', RssFeed, RssKey)
        /\ rss' = RssNextEntry(rss)
        /\ tg' = tg
  /\ seen \subseteq seen'

\* C35: an item whose final classification is include = false gets its
\* record in the step that rejects it and no send request is made for it;
\* records stay, and an item that has a record is never enriched,
\* classified or sent.
C35_RejectedIsRecorded ==
  /\ [][C35_Step]_vars
  /\ [](RssInWork => ~RssRecorded)

\* a later pass meets the item that matches nothing: it has its record
C35_Witness ==
  /\ rss.pass = "loop" /\ rss.pc = "Deduping" /\ RssKey = "g" /\ RssRecorded
  /\ ~RssClassifyResult(RssEntry, FALSE).include
  /\ ~RssClassifyResult(RssEntry, TRUE).include

(***************************************************************************)
(* C36 -- the strong-sentiment override of the strict policy.              *)
(***************************************************************************)
\* include, macro, crypto = matches_filters(title, summary, body), on the
\* text of the item under the cursor
RssFilterResult ==
  matches_filters(RssEntry.macro_hits
                    + (IF rss.body THEN RssEntry.body_macro_hits ELSE 0),
                  RssEntry.crypto_hits, RssEntry.hyper)

FamilyMatched == RssFilterResult.macro \/ RssFilterResult.crypto
ExtremeScore == RssEntry.score >= 80 \/ RssEntry.score <= 20

\* the item goes on to scoring, formatting and the send
GoesToDelivery == rss'.pc = "Formatting" /\ rss'.i = rss.i /\ rss'.entries = rss.entries

C36_Step ==
  (rss.pc = "Classifying" /\ rss' # rss) =>
     /\ (POST_ONLY_ON_STRONG_MATCH /\ ~RssFilterResult.include) =>
          (GoesToDelivery <=> (FamilyMatched /\ ExtremeScore))
     /\ (~FamilyMatched /\ ~RssEntry.hyper) => ~GoesToDelivery

\* C36: under the strict policy an item the classifier rejects goes on to
\* delivery exactly when a topic family matched and its score is >= 0.8 or
\* <= 0.2; under either policy an item with no family match and no
\* priority match never reaches formatting or the send.
C36_Override ==
  /\ [][C36_Step]_vars
  /\ [](rss.pc \in {"Formatting", "Delivering", "Posting", "Committing"} =>
          /\ FamilyMatched \/ RssEntry.hyper
          /\ RssFilterResult.include
               \/ (POST_ONLY_ON_STRONG_MATCH /\ FamilyMatched /\ ExtremeScore))

\* under the strict policy, a send request is out for an item with one
\* macro hit that the classifier rejects, scored 0.9
C36_Witness ==
  /\ POST_ONLY_ON_STRONG_MATCH /\ rss.pc = "Posting" /\ RssKey = "h"
  /\ ~RssFilterResult.include /\ tg.sends = 1

\* the same at the lower threshold: one crypto hit, scored 0.2
C36_WitnessLow ==
  /\ POST_ONLY_ON_STRONG_MATCH /\ rss.pc = "Posting" /\ RssKey = "j"
  /\ ~RssFilterResult.include /\ RssEntry.score = 20

\* under the strict policy the items scored 0.79 and 0.21 were rejected
C36_WitnessRejected ==
  /\ POST_ONLY_ON_STRONG_MATCH /\ rss.pass = "loop"
  /\ rss_seen_before(seen, "feed1", "i") /\ rss_seen_before(seen, "feed2", "m")
  /\ \A r \in seen : r.entry_key \in {"i", "m"} => r.first_seen_ts = now

(***************************************************************************)
(* C37 -- an item without a date is never too old.                         *)
(***************************************************************************)
\* the dedup stage is about to test the age of an item it has not seen
RssAgeTest ==
  /\ rss.pc = "Deduping" /\ RssEntry.raises # "entry_key" /\ ~RssRecorded

Undated == to_unix_ts(RssEntry.dt_str) = None

C37_Step ==
  (RssAgeTest /\ Undated /\ rss' # rss) =>
     /\ rss'.pc = "Enriching" /\ rss'.i = rss.i /\ rss'.entries = rss.entries
     /\ seen' = seen

\* C37: for every ceiling (0 and a negative one included) an item whose
\* published string is missing, empty or not a date is not too old: from
\* the age test it goes to enrichment with no record written, and from
\* there to classification.
C37_UndatedNeverTooOld ==
  /\ [](RssAgeTest /\ Undated => ~too_old(to_unix_ts(RssEntry.dt_str)))
  /\ [][C37_Step]_vars
  /\ [][(rss.pc = "Enriching" /\ Undated /\ rss' # rss) => rss'.pc = "Classifying"]_vars

\* with the ceiling at 0 an item whose date string is not a date is being
\* classified, while the dated item of today was recorded as too old
C37_Witness ==
  /\ MAX_AGE_DAYS = 0 /\ rss.pc = "Classifying" /\ RssKey = "l"
  /\ RssEntry.dt_str = DtGarbage
  /\ rss_seen_before(seen, "feed2", "j")

(***************************************************************************)
(* The X poller alone, with the mirrors and x.com answering in every way.  *)
(***************************************************************************)
Answers ==
  {Answer("status", <<>>), Answer("raises", <<>>), Answer("page", <<>>)}
  \cup {Answer("page", TimelinePage(MAX_POSTS_PER_CYCLE + 1, broken)) :
          broken \in {{}, {1}, 1..MAX_POSTS_PER_CYCLE}}

\* posts = await fetch_x_posts(client, X_USERNAME); nothing ends the cycle
XFetchEither ==
  /\ XRunning /\ x.pc = "Fetching"
  /\ \E answers \in [1..NITTER_INSTANCES -> Answers], direct \in Answers :
       LET posts == fetch_x_posts_either(answers, direct)
       IN x' = IF posts = <<>> THEN XCycleEnd(x)
               ELSE XNextPost([x EXCEPT !.posts = posts, !.i = 0])
  /\ UNCHANGED <<bot_log_handler, fmt, hf, now, MAX_AGE_DAYS, POST_ONLY_ON_STRONG_MATCH, seen, x_posts, db_error,
                 rss, tg, xtg, mgr, hist>>

NextFetch ==
  \/ StartXOnly
  \/ XStart \/ XFetchEither \/ XDedup \/ XSend \/ XResponse \/ XCommit \/ XWake

SpecFetch == Init /\ [][NextFetch]_vars

(***************************************************************************)
(* C38 -- at most MAX_POSTS_PER_CYCLE delivery calls per cycle.            *)
(***************************************************************************)
\* a delivery call is entered for the post under the cursor, and the cursor
\* comes to a post once
C38_Step ==
  /\ (x.pc = "Deduping" /\ x'.pc = "Delivering") =>
        x'.posts = x.posts /\ x'.i = x.i
  /\ (x'.pc = "Deduping" /\ x' # x) =>
        \/ x.pc = "Fetching" /\ x'.i = 1
        \/ x'.posts = x.posts /\ x'.i = x.i + 1

\* C38: whichever mirror, or x.com, supplied the batch and however long the
\* page was, the batch of a cycle holds at most MAX_POSTS_PER_CYCLE posts;
\* the cursor stays inside the batch, and a delivery call is made at most
\* once for each post of the batch.
C38_BatchBounded ==
  /\ [](Len(x.posts) <= MAX_POSTS_PER_CYCLE /\ x.i \in 0..Len(x.posts))
  /\ [][C38_Step]_vars

\* the request for the last post of a full batch is out (every page has one
\* item more than the limit)
C38_Witness ==
  /\ Len(x.posts) = MAX_POSTS_PER_CYCLE /\ x.i = MAX_POSTS_PER_CYCLE
  /\ x.pc = "Posting"

\* a batch whose page had an item without a link inside the limit
C38_WitnessShort ==
  /\ x.posts # <<>> /\ Len(x.posts) = MAX_POSTS_PER_CYCLE - 1
  /\ x.posts[1].post_id = "p2" /\ x.pc = "Posting"

(***************************************************************************)
(* The X task under the supervisor, with errors at start-up, in the cycle  *)
(* and in the main loop.                                                   *)
(***************************************************************************)
NextLoop ==
  \/ StartXOnly
  \/ health_monitor
  \/ XStart \/ XFetch \/ XDedup \/ XSend \/ XResponse \/ XCommit \/ XWake
  \/ XCrash \/ XLoopError \/ XResume \/ XInterrupt

SpecLoop == Init /\ [][NextLoop]_vars

(***************************************************************************)
(* C39 -- the X task ends with an error at start-up only.                  *)
(***************************************************************************)
C39_Step ==
  /\ (mgr'.x_task = "failed" /\ mgr.x_task # "failed") => x.pc = "start"
  /\ hist'.x_restarts > hist.x_restarts =>
        mgr.x_task = "failed" /\ x' = XFresh
  /\ (x.pc = "Paused" /\ x' # x) => x'.pc = "Idle" /\ mgr'.x_task = "running"

\* C39: the X task ends with an exception at start-up only (init_db, the
\* client); an error in a cycle or in the main loop leaves the task
\* running, and after the pause the loop goes round; the supervisor
\* recreates the task only after such a start-up failure, and not when the
\* task returned without an exception.
C39_OnlyStartupFails ==
  /\ [][C39_Step]_vars
  /\ [](x.pc \notin {"start", "dead"} => mgr.x_task = "running")
  /\ [][mgr.x_task = "finished" => mgr'.x_task = "finished" /\ x' = x]_vars

\* the task that was recreated after a start-up failure has caught an error
\* of its main loop and is pausing
C39_Witness ==
  /\ hist.x_restarts = 1 /\ x.pc = "Paused" /\ mgr.x_task = "running"
  /\ x_posts # {}

(***************************************************************************)
(* C40 -- tasks for enabled sources only, one restart per crash.           *)
(***************************************************************************)
\* the tasks of a source that ended with an exception, among all the tasks
\* created for it
FailedTasks(task, replaced) ==
  Cardinality({k \in 1..Len(replaced) : replaced[k] = "failed"})
    + (IF task = "failed" THEN 1 ELSE 0)

\* no task was ever created for the source
NoTask(task, replaced, restarts) == task = "none" /\ replaced = <<>> /\ restarts = 0

C40_Step ==
  /\ hist'.rss_restarts \in {hist.rss_restarts, hist.rss_restarts + 1}
  /\ hist'.x_restarts \in {hist.x_restarts, hist.x_restarts + 1}
  /\ hist'.rss_restarts > hist.rss_restarts => mgr.rss_enabled /\ mgr.rss_task = "failed"
  /\ hist'.x_restarts > hist.x_restarts => mgr.x_enabled /\ mgr.x_task = "failed"
  /\ mgr.started => mgr'.rss_enabled = mgr.rss_enabled /\ mgr'.x_enabled = mgr.x_enabled

\* C40: once start() has chosen the mode, a disabled source has no task,
\* from start() or from a sweep, and its poller never runs; for each source
\* the restarts made never exceed the tasks of it that ended with an
\* exception, and each restart replaces one such task.
C40_EnabledOnly ==
  /\ [](mgr.started =>
          /\ ~mgr.rss_enabled =>
               NoTask(mgr.rss_task, mgr.rss_replaced, hist.rss_restarts) /\ rss = RssFresh
          /\ ~mgr.x_enabled =>
               NoTask(mgr.x_task, mgr.x_replaced, hist.x_restarts) /\ x = XFresh)
  /\ [](/\ hist.rss_restarts <= FailedTasks(mgr.rss_task, mgr.rss_replaced)
        /\ hist.x_restarts <= FailedTasks(mgr.x_task, mgr.x_replaced)
        /\ hist.rss_restarts + hist.x_restarts <= hist.crashes)
  /\ [][C40_Step]_vars

\* feed-only mode: the feed task crashed and was restarted, and there is no
\* X task
C40_Witness ==
  /\ mgr.started /\ ~mgr.x_enabled
  /\ hist.rss_restarts = 1 /\ mgr.rss_task = "running" /\ rss.pc = "Fetching"
  /\ NoTask(mgr.x_task, mgr.x_replaced, hist.x_restarts)

====
